---- MODULE Spec2Model ----
(***************************************************************************)
(* Payload creation/validation subcomponent of consensus                   *)
(* (rs/consensus/src/consensus/payload_builder.rs).                        *)
(*                                                                         *)
(* One PayloadBuilderImpl serves get_payload and validate_payload calls.   *)
(* The four section builders, the registry and the logger are external     *)
(* collaborators: their answers are inputs of the calls.  A call advances  *)
(* one section at a time, because every iteration of its loop calls out    *)
(* to a section builder.                                                   *)
(***************************************************************************)
EXTENDS Integers, Sequences, FiniteSets, TLC

(* ----------------------------- bounds ---------------------------------- *)

\* Subnet record fields range over 0..MaxSize.
MaxSize == 1
\* The two system-wide floors range over 0..MaxFloor.
MaxFloor == 1
\* Heights range over 0..MaxHeight.
MaxHeight == 7
\* Slices of a payload hold 0..MaxSlice bytes (or ScenarioSize bytes).
MaxSlice == 1
\* critical_error_subnet_record_data_issue is followed up to MaxCounter.
MaxCounter == 2
\* The clock advances at most MaxTicks times, one warning window a time.
MaxTicks == 1
MaxPast == 2
MaxRegistryVersion == 1
MaxObserved == 2
\* The connection semaphore is followed with MaxOutstanding permits.
MaxOutstanding == 3
\* connections_total is followed up to MaxAccepts.
MaxAccepts == 4
\* load_root_delegation is followed for MaxAttempts rounds of its loop.
MaxAttempts == 2
\* The accept errors observed are followed up to MaxAcceptErrors.
MaxAcceptErrors == 2
\* A Time counts nanoseconds in TimeBits bits, in place of 64.
TimeBits == 3
\* The argument of MinConfirmations ranges over 0..MaxConfirmations.
MaxConfirmations == 15
\* A Page holds up to MaxPage bytes.
MaxPage == 2

\* The record of the concrete scenario: max_block_payload_size 500 and
\* max_ingress_bytes_per_message 1_000_000.
ScenarioRecord ==
    [max_block_payload_size |-> 500, max_ingress_bytes_per_message |-> 1000000]

\* A slice as large as the largest message of the scenario
ScenarioSize == ScenarioRecord.max_ingress_bytes_per_message

(* ----------------------------- data ------------------------------------ *)

\* payload_builder.rs:81-86, the fixed order of the section builders
section_builder ==
    <<"Ingress", "SelfValidating", "XNet", "CanisterHttp">>

num_sections == Len(section_builder)

\* Section ids as the source indexes them: 0 .. num_sections - 1
SectionIds == 0 .. (num_sections - 1)

SectionName(section_id) == section_builder[section_id + 1]

SubnetRecord ==
    [max_block_payload_size : 0 .. MaxSize,
     max_ingress_bytes_per_message : 0 .. MaxSize]
    \cup {ScenarioRecord}

\* What the registry holds for the subnet at context.registry_version:
\* a record, or nothing that can be obtained.
NoRecord ==
    [max_block_payload_size |-> -1, max_ingress_bytes_per_message |-> -1]

\* One section's slice of a BatchPayload: its size in bytes, and whether
\* the section's validate accepts it.
Slice(bytes) == [bytes |-> bytes, valid |-> TRUE]
MalformedSlice == [bytes |-> 0, valid |-> FALSE]

\* BatchPayload::default()
DefaultBatchPayload == [s \in SectionIds |-> Slice(0)]

SliceSizes == (0 .. MaxSlice) \cup {ScenarioSize}

Max(a, b) == IF a >= b THEN a ELSE b

\* The difference taken without saturation
unchecked_sub(a, b) == a - b

\* u64::saturating_sub
saturating_sub(a, b) == IF a >= b THEN a - b ELSE 0

\* Verdicts of validate_payload
NoVerdict == [kind |-> "None"]
Ok == [kind |-> "Ok"]
TransientError == [kind |-> "Transient"]
PayloadTooBig(expected, received) ==
    [kind |-> "PayloadTooBig", expected |-> expected, received |-> received]
SectionError(section_id) == [kind |-> "SectionError", section |-> section_id]

\* A call to compare a later one with: its verdict, and the clock, the
\* metrics counter and the warning cooldown it started from.
NoPrevCall ==
    [verdict |-> NoVerdict, now |-> 0, counter |-> 0, last_warned |-> 0]

WARN_EVERY_N_SECONDS == 300
TickSeconds == WARN_EVERY_N_SECONDS
\* Half a cooldown window
HalfWindow == WARN_EVERY_N_SECONDS \div 2
Never == 0 - 1

\* Sources that hold no content
NothingOffered == [s \in SectionIds |-> 0]

\* subnet_records.membership_version of the callers that hold one record
FirstMembership ==
    [max_block_payload_size |-> 0, max_ingress_bytes_per_message |-> 0]

\* ValidationContext, by its registry_version
Contexts == {[registry_version |-> v] : v \in 0 .. MaxRegistryVersion}
FirstContext == [registry_version |-> 0]

\* past_payloads: &[(Height, Time, Payload)], newest first, as the list of
\* the distances of its entries below the height of the call
PastPayloads == {[i \in 1 .. n |-> i] : n \in 0 .. MaxPast}

\* The list without its oldest entry
section_arguments_past_cut(h, ctx, past) ==
    [height |-> h, context |-> ctx,
     past_payloads |-> SubSeq(past, 1, Len(past) - 1)]

\* payload_builder.rs:129-140 and 167-168: height, context and past_payloads
\* are handed to the section as the call received them
section_arguments(h, ctx, past) ==
    [height |-> h, context |-> ctx, past_payloads |-> past]

(* ----------------------------- state ----------------------------------- *)

\* MAX_BITCOIN_BLOCK_SIZE and MAX_XNET_PAYLOAD_IN_BYTES are constants of
\* ic_types (payload_builder.rs:22,24) whose values are set outside these
\* sources: a run fixes them in Init to any values of 0..MaxFloor.
\* Spec has no Tick: there `now` stays 0; SpecReplay lets the clock advance.

VARIABLES
    MAX_BITCOIN_BLOCK_SIZE,     \* ic_types::batch constant, fixed at start
    MAX_XNET_PAYLOAD_IN_BYTES,  \* ic_types::messages constant, fixed at start
    builders_keep_contract,     \* the section builders report <= byte_limit
    membership_version,         \* subnet_records.membership_version
    offered,                    \* bytes of content each section's source holds
    context,                    \* argument context, as the caller holds it
    past_payloads,              \* argument past_payloads, as the caller holds it
    passed,                     \* the arguments handed to each section call
    op,                         \* "none" | "get_payload" | "validate_payload"
    pc,                         \* "idle" | "sections" | "done"
    height,                     \* argument height
    is_summary,                 \* validate: payload.is_summary()
    subnet_record,              \* the record the call resolves its budget from
    max_block_payload_size,     \* the resolved budget of the call
    accumulated_size,           \* running total of the call
    batch_payload,              \* the BatchPayload built or validated
    inspected,                  \* validate: slices whose content is known
    section_select,             \* build: the rotated order
    calls,                      \* section ids called so far, in call order
    limits,                     \* build: byte_limit passed at each call
    verdict,                    \* validate: the returned result
    from_build,                 \* validate: the payload is the one just built
    prev_call,                  \* validate: the previous call with these arguments
    critical_error_subnet_record_data_issue,  \* metrics counter
    get_payload_duration,       \* metrics histogram: sum of the seconds observed
    validate_payload_duration,  \* metrics histogram: sum of the seconds observed
    past_payloads_length,       \* metrics histogram: sum of the lengths observed
    now,                        \* wall clock, seconds
    last_warned,                \* warn!(every_n_seconds) cooldown state
    call_now,                   \* the clock when the call started
    call_counter,               \* the counter when the call started
    call_last_warned            \* the cooldown state when the call started

\* The HTTP server of http_handler/src/lib.rs
VARIABLES
    outstanding_connections,    \* free permits of the connection semaphore
    request_permit,             \* the accept loop holds a permit
    connection_tasks,           \* spawned connection tasks, by their position
    connections_total,          \* metrics counter of accepted connections
    accept_loop,                \* "running" | "ended": the loop of start_server
    accept_errors,              \* connection errors observed with label Accept
    last_observed,              \* what a connection task observed last
    on_nns_subnet,              \* subnet_id == nns_subnet_id
    certified_state,            \* the state reader has a certified state
    health_status,              \* the shared ReplicaHealthStatus
    delegation_from_nns,        \* the shared Option<CertificateDelegation>
    init_pc,                    \* position of the initialization task
    loaded_delegation,          \* what load_root_delegation returned
    fetching_root_delagation_attempts,  \* loop counter of load_root_delegation
    last_attempt                \* what the last attempt of the loop met

\* Requests, times and conversions the functions of the other files are
\* applied to
VARIABLES
    req,                        \* make_router: the request
    routed,                     \* make_router: what the request was answered
    time_t,                     \* time.rs: the Time an operation is applied to
    time_d,                     \* time.rs: the Duration it is applied to
    time_result,                \* time.rs: the operation and what it gave
    in_request,                 \* bitcoin types: a value as a request holds it
    converted                   \* bitcoin types: the operation and what it gave

builderVars ==
    <<MAX_BITCOIN_BLOCK_SIZE, MAX_XNET_PAYLOAD_IN_BYTES,
      builders_keep_contract, membership_version, offered, context,
      past_payloads, passed, op, pc, height,
      is_summary, subnet_record, max_block_payload_size, accumulated_size,
      batch_payload, inspected, section_select, calls, limits, verdict,
      from_build, prev_call,
      critical_error_subnet_record_data_issue, get_payload_duration,
      validate_payload_duration, past_payloads_length, now, last_warned,
      call_now, call_counter, call_last_warned>>

connectionVars ==
    <<outstanding_connections, request_permit, connection_tasks,
      connections_total, accept_loop, accept_errors, last_observed>>
initializationVars ==
    <<on_nns_subnet, certified_state, health_status, delegation_from_nns,
      init_pc, loaded_delegation, fetching_root_delagation_attempts,
      last_attempt>>
serverVars == <<connectionVars, initializationVars>>
routerVars == <<req, routed>>
timeVars == <<time_t, time_d, time_result>>
conversionVars == <<in_request, converted>>
appliedVars == <<routerVars, timeVars, conversionVars>>

vars == <<builderVars, serverVars, appliedVars>>

floorVars == <<MAX_BITCOIN_BLOCK_SIZE, MAX_XNET_PAYLOAD_IN_BYTES>>
fixedVars ==
    <<floorVars, builders_keep_contract, membership_version, offered,
      context, past_payloads, serverVars, appliedVars>>
envVars == <<critical_error_subnet_record_data_issue, last_warned>>
startVars == <<call_now, call_counter, call_last_warned>>
histogramVars ==
    <<get_payload_duration, validate_payload_duration, past_payloads_length>>

\* payload_builder.rs:106, 155: `_timer` observes, when the call returns, the
\* seconds since it was started
stop_timer(duration, started) == duration + (now - started)

\* The environment a call starts from, kept to compare calls
CallStarts ==
    /\ call_now' = now
    /\ call_counter' = critical_error_subnet_record_data_issue
    /\ call_last_warned' = last_warned

(* ----------------------------- resolver -------------------------------- *)

\* required_min_size without MAX_XNET_PAYLOAD_IN_BYTES
required_min_size_no_xnet(record) ==
    Max(MAX_BITCOIN_BLOCK_SIZE, record.max_ingress_bytes_per_message)

\* payload_builder.rs:201-203
required_min_size(record) ==
    Max(Max(MAX_BITCOIN_BLOCK_SIZE, MAX_XNET_PAYLOAD_IN_BYTES),
        record.max_ingress_bytes_per_message)

\* The resolver returning required_min_size whatever the record allows.
get_max_block_payload_size_bytes_always_min(record) ==
    required_min_size(record)

\* The resolver clamping only in the calls that emit the warning.
get_max_block_payload_size_bytes_clamp_when_warned(record) ==
    IF /\ record.max_block_payload_size < required_min_size(record)
       /\ (last_warned = Never \/ now - last_warned >= WARN_EVERY_N_SECONDS)
    THEN required_min_size(record)
    ELSE record.max_block_payload_size

\* The clamp given up once a fault has been counted.
get_max_block_payload_size_bytes_quiet_after_alarm(record) ==
    IF /\ record.max_block_payload_size < required_min_size(record)
       /\ critical_error_subnet_record_data_issue = 0
    THEN required_min_size(record)
    ELSE record.max_block_payload_size

\* The resolver handing out the record's value as it is.
get_max_block_payload_size_bytes_unclamped(record) ==
    record.max_block_payload_size

\* payload_builder.rs:200-219, the returned value
get_max_block_payload_size_bytes(record) ==
    IF record.max_block_payload_size < required_min_size(record)
    THEN required_min_size(record)
    ELSE record.max_block_payload_size

\* warn!(every_n_seconds => 300, ..): the message is emitted when none was
\* emitted during the last 300 seconds, and the emission time is remembered.
warn_every_n_seconds ==
    IF last_warned = Never \/ now - last_warned >= WARN_EVERY_N_SECONDS
    THEN last_warned' = now
    ELSE last_warned' = last_warned

\* The counter incremented only by the calls that emit the warning.
get_max_block_payload_size_bytes_effects_inc_when_warned(record) ==
    IF record.max_block_payload_size < required_min_size(record)
    THEN /\ warn_every_n_seconds
         /\ critical_error_subnet_record_data_issue' =
                IF last_warned = Never
                       \/ now - last_warned >= WARN_EVERY_N_SECONDS
                THEN critical_error_subnet_record_data_issue + 1
                ELSE critical_error_subnet_record_data_issue
    ELSE UNCHANGED envVars

\* The warning emitted by every misconfigured call, without the rate limit.
get_max_block_payload_size_bytes_effects_warn_always(record) ==
    IF record.max_block_payload_size < required_min_size(record)
    THEN /\ last_warned' = now
         /\ critical_error_subnet_record_data_issue' =
                critical_error_subnet_record_data_issue + 1
    ELSE UNCHANGED envVars

\* payload_builder.rs:208-216, the side effects of the resolver
get_max_block_payload_size_bytes_effects(record) ==
    IF record.max_block_payload_size < required_min_size(record)
    THEN /\ warn_every_n_seconds
         /\ critical_error_subnet_record_data_issue' =
                critical_error_subnet_record_data_issue + 1
    ELSE UNCHANGED envVars

\* The counter is followed up to MaxCounter.
CounterRoom(record) ==
    record.max_block_payload_size < required_min_size(record)
        => critical_error_subnet_record_data_issue < MaxCounter

(* ----------------------------- rotation -------------------------------- *)

\* slice::rotate_left(k) in the place of rotate_right(k)
rotate_left(seq, k) ==
    [i \in 1 .. Len(seq) |-> seq[((i - 1 + k) % Len(seq)) + 1]]

\* slice::rotate_right(k), k <= len: the element at index i moves to
\* index (i + k) mod len
rotate_right(seq, k) ==
    [i \in 1 .. Len(seq) |-> seq[((i - 1 + Len(seq) - k) % Len(seq)) + 1]]

\* The rotation taken modulo one less than the number of sections.
rotated_section_select_short_cycle(h) ==
    rotate_right([i \in 1 .. num_sections |-> i - 1],
                 h % (num_sections - 1))

\* The first id exchanged with the id at the rotation distance.
rotated_section_select_swapped(h) ==
    LET k == h % num_sections
    IN [i \in 1 .. num_sections |->
            IF i = 1 THEN k ELSE IF i = k + 1 THEN 0 ELSE i - 1]

\* payload_builder.rs:116-118
rotated_section_select(h) ==
    rotate_right([i \in 1 .. num_sections |-> i - 1], h % num_sections)

(* ----------------------------- HTTP server -------------------------- *)

\* lib.rs:111 gives the semaphore 20000 permits; the accept loop never
\* reads the number, so a semaphore of MaxOutstanding permits is followed.
MAX_OUTSTANDING_CONNECTIONS == MaxOutstanding

\* Where a spawned connection task stands: lib.rs:402-406 (peek),
\* 518-524 (TLS handshake), 538 and 542 (hyper serving the connection)
TaskPositions == {"peek", "tls_handshake", "https", "http"}
NoTasks == [p \in TaskPositions |-> 0]

\* The tasks spawned by the accept loop that have not finished
Outstanding ==
    connection_tasks["peek"] + connection_tasks["tls_handshake"]
        + connection_tasks["https"] + connection_tasks["http"]

\* lib.rs:410: the first byte of a TLS handshake record
TlsHandshakeByte == 22

\* lib.rs:401-436: what the peek into the stream gives within
\* MAX_TCP_PEEK_TIMEOUT_SECS: the buffer `b` as the peek left it (0 when
\* nothing was read), an error, or no answer in time
FirstBytes == {0, TlsHandshakeByte, TlsHandshakeByte + 1, 71}
PeekResults ==
    {[kind |-> "peeked", b |-> byte] : byte \in FirstBytes}
        \cup {[kind |-> "error", b |-> 0], [kind |-> "timeout", b |-> 0]}

\* Every connection served as Https.
peeked_app_layer_always_https(peek_result) == "tls_handshake"

\* A failed or late peek taken for a TLS connection.
peeked_app_layer_https_on_failure(peek_result) ==
    IF peek_result.kind = "peeked" /\ peek_result.b # TlsHandshakeByte
    THEN "http" ELSE "tls_handshake"

\* lib.rs:409-435: Https for a first byte 22, Http otherwise and after an
\* error or a timeout; a Https connection starts with the TLS handshake
peeked_app_layer(peek_result) ==
    IF peek_result.kind = "peeked" /\ peek_result.b = TlsHandshakeByte
    THEN "tls_handshake" ELSE "http"

\* What the connection tasks observe: the outcome of a peek, of a TLS
\* handshake, or the end of a served connection
NothingObserved == [step |-> "none"]

\* ReplicaHealthStatus in the order start_server_initialization sets it
HealthOrder ==
    <<"Starting", "WaitingForCertifiedState", "WaitingForRootDelegation",
      "Healthy">>
NoDelegation == [kind |-> "None"]
NoRequest == [method |-> "none"]

\* What one round of the loop of load_root_delegation meets: `fetch` is
\* the first step up to the parsed hash tree that fails, or the parsed
\* tree's entry for the subnet's public key and the signer the
\* certificate validates against;
\* registry_pk and root_pk are what the registry and the replicated state
\* give for the subnet's and the root's threshold public key.
Keys == {"subnet_key", "other_key"}
Certificates ==
    [step : {"parsed"},
     public_key : Keys \cup {"absent", "not_der"},
     signed_by : {"root_key", "other_key"}]
FetchFailures ==
    {"no_node", "bad_ip_address", "request_builder", "http_request",
     "body", "response_cbor", "certificate_cbor", "hash_tree"}
AttemptAnswers ==
    [fetch : {[step |-> f] : f \in FetchFailures} \cup Certificates,
     registry_pk : Keys \cup {"none", "error"},
     root_pk : {"root_key", "not_der", "none"}]
NoAttempt == [fetch |-> [step |-> "none"]]

\* lib.rs:299-300, 380-383: start_server on subnet `nns` or another one
start_server(nns) ==
    /\ outstanding_connections = MAX_OUTSTANDING_CONNECTIONS
    /\ request_permit = FALSE
    /\ connection_tasks = NoTasks
    /\ connections_total = 0
    /\ accept_loop = "running"
    /\ accept_errors = 0
    /\ last_observed = NothingObserved
    /\ on_nns_subnet = nns
    /\ certified_state = FALSE
    /\ health_status = "Starting"
    /\ delegation_from_nns = NoDelegation
    /\ init_pc = "spawned"
    /\ loaded_delegation = NoDelegation
    /\ fetching_root_delagation_attempts = 0
    /\ last_attempt = NoAttempt

(* ----------------------------- make_router -------------------------- *)

\* lib.rs:135: "application/cbor", character by character
CONTENT_TYPE_CBOR ==
    <<"a", "p", "p", "l", "i", "c", "a", "t", "i", "o", "n", "/",
      "c", "b", "o", "r">>

\* The upper-case letters of the header values followed, and what
\* str::to_lowercase makes of them
ToLower ==
    [c \in {"A", "P", "L", "I", "C", "T", "O", "N", "B", "R"} |->
        CASE c = "A" -> "a" [] c = "P" -> "p" [] c = "L" -> "l"
          [] c = "I" -> "i" [] c = "C" -> "c" [] c = "T" -> "t"
          [] c = "O" -> "o" [] c = "N" -> "n" [] c = "B" -> "b"
          [] c = "R" -> "r"]

\* A byte outside the visible ASCII characters
OpaqueByte == "\\x80"

\* Header values of content-type: the CBOR type in lower, upper and mixed
\* case, with a parameter, with a byte that is no visible ASCII, and another
\* type
HeaderValues ==
    {CONTENT_TYPE_CBOR,
     <<"A", "P", "P", "L", "I", "C", "A", "T", "I", "O", "N", "/",
       "C", "B", "O", "R">>,
     <<"A", "p", "p", "l", "i", "c", "a", "t", "i", "o", "n", "/",
       "C", "b", "o", "r">>,
     CONTENT_TYPE_CBOR \o <<";", "q">>,
     CONTENT_TYPE_CBOR \o <<OpaqueByte>>,
     <<"a", "p", "p", "l", "i", "c", "a", "t", "i", "o", "n", "/",
       "j", "s", "o", "n">>}

\* HeaderValue::to_str: Ok for visible ASCII only
to_str_is_ok(value) == \A i \in 1 .. Len(value) : value[i] # OpaqueByte

\* str::to_lowercase
to_lowercase(v) ==
    [i \in 1 .. Len(v) |-> IF v[i] \in DOMAIN ToLower THEN ToLower[v[i]]
                           ELSE v[i]]

\* A comparison of the header value as it was sent.
is_cbor_content_type_exact(value) == value = CONTENT_TYPE_CBOR

\* lib.rs:603-608: the closure of `any`
is_cbor_content_type(value) ==
    IF to_str_is_ok(value) THEN to_lowercase(value) = CONTENT_TYPE_CBOR
    ELSE FALSE

\* Paths by their segments, as `path.split('/')` gives them
CanisterIds == {"aaaaa-aa", ""}
HTTP_DASHBOARD_URL_PATH == <<"", "_", "dashboard">>
Paths ==
    {<<"", "api", "v2", "canister", id, action>> :
        id \in CanisterIds, action \in {"call", "query", "read_state"}}
    \cup {<<"", "_", "catch_up_package">>, <<"", "api", "v2", "status">>,
          <<"", "">>, <<"", "_", "">>, HTTP_DASHBOARD_URL_PATH,
          <<"", "_", "pprof">>, <<"", "_", "pprof", "profile">>,
          <<"", "_", "pprof", "flamegraph">>,
          <<"", "api", "v2", "canister", "aaaaa-aa", "call", "">>,
          <<"", "api", "v2", "canister", "aaaaa-aa", "status">>,
          <<"", "api", "v3", "status">>, <<"", "api", "v2", "status", "">>}

Methods == {"POST", "GET", "OPTIONS", "PUT", "DELETE", "HEAD"}

\* The content-type headers of a request: none, one or two
HeaderLists ==
    {<<>>} \cup {<<v>> : v \in HeaderValues}
           \cup {<<v, w>> : v \in {CONTENT_TYPE_CBOR \o <<";", "q">>,
                                   CONTENT_TYPE_CBOR \o <<OpaqueByte>>},
                            w \in HeaderValues}

Requests ==
    [method : Methods, content_type : HeaderLists, path : Paths]
NotRouted == [answer |-> "none"]

\* lib.rs:996-1022 and make_plaintext_response: a response made by the
\* router itself
RouterResponse(status, api_req_type) ==
    [answer |-> "response", status |-> status, api_req_type |-> api_req_type]
\* lib.rs:703-714: the request is handed to an endpoint service
ToService(service, api_req_type) ==
    [answer |-> "service", service |-> service,
     api_req_type |-> api_req_type]

\* lib.rs:622-649: the POST paths
post_route(path) ==
    IF Len(path) = 6 /\ SubSeq(path, 1, 4) = <<"", "api", "v2", "canister">>
       /\ path[6] = "call"
    THEN ToService("call_service", "Call")
    ELSE IF Len(path) = 6
            /\ SubSeq(path, 1, 4) = <<"", "api", "v2", "canister">>
            /\ path[6] = "query"
    THEN ToService("query_service", "Query")
    ELSE IF Len(path) = 6
            /\ SubSeq(path, 1, 4) = <<"", "api", "v2", "canister">>
            /\ path[6] = "read_state"
    THEN ToService("read_state_service", "ReadState")
    ELSE IF path = <<"", "_", "catch_up_package">>
    THEN ToService("catch_up_package_service", "CatchUpPackage")
    ELSE RouterResponse(404, "InvalidArgument")

\* lib.rs:651-687: the GET paths
get_route(path) ==
    IF path = <<"", "api", "v2", "status">>
    THEN ToService("status_service", "Status")
    ELSE IF path = <<"", "">> \/ path = <<"", "_", "">>
    THEN RouterResponse(302, "RedirectToDashboard")
    ELSE IF path = HTTP_DASHBOARD_URL_PATH
    THEN ToService("dashboard_service", "Dashboard")
    ELSE IF path = <<"", "_", "pprof">>
    THEN RouterResponse("pprof::home", "PprofHome")
    ELSE IF path = <<"", "_", "pprof", "profile">>
    THEN RouterResponse("pprof::cpu_profile", "PprofProfile")
    ELSE IF path = <<"", "_", "pprof", "flamegraph">>
    THEN RouterResponse("pprof::cpu_flamegraph", "PprofFlamegraph")
    ELSE RouterResponse(404, "InvalidArgument")

\* lib.rs:579-702: the match on the method
make_router_answer(r) ==
    IF r.method = "POST"
    THEN IF ~\E i \in 1 .. Len(r.content_type) :
                 is_cbor_content_type(r.content_type[i])
         THEN RouterResponse(400, "InvalidArgument")
         ELSE post_route(r.path)
    ELSE IF r.method = "GET" THEN get_route(r.path)
    ELSE IF r.method = "OPTIONS" THEN RouterResponse(204, "Options")
    ELSE RouterResponse(405, "InvalidArgument")

\* lib.rs:579-715: make_router on the request
make_router ==
    /\ routed = NotRouted
    /\ routed' = make_router_answer(req)
    /\ UNCHANGED <<req, timeVars, conversionVars, builderVars, serverVars>>

(* ----------------------------- time.rs ------------------------------ *)

\* The values of u64, at the width followed
NanosModulus == 2 ^ TimeBits
U64 == 0 .. (NanosModulus - 1)

\* time.rs:18: `pub struct Time(u64)`
Time(nanos) == [time |-> nanos]
\* time.rs:21
UNIX_EPOCH == Time(0)

\* std::time::Duration by its nanoseconds: as_nanos is a u128 and exceeds
\* a u64 for the larger durations; Duration::MAX is followed as four times
\* the range of a Time
Dur(nanos) == [duration |-> nanos]
DurationLimit == 4 * NanosModulus - 1
Durations == {Dur(n) : n \in 0 .. DurationLimit}
Times == {Time(n) : n \in U64}

Panic(message) == [panic |-> message]
Panicked(value) == "panic" \in DOMAIN value
TimeOk(value) == [ok |-> value]
TimeErr(message) == [err |-> message]

\* std: `Duration + Duration` panics when the sum is no Duration
duration_add(a, b) ==
    IF a.duration + b.duration > DurationLimit
    THEN Panic("overflow when adding durations")
    ELSE Dur(a.duration + b.duration)

\* std: `Duration - Duration` panics below zero
duration_sub(a, b) ==
    IF a.duration < b.duration
    THEN Panic("overflow when subtracting durations")
    ELSE Dur(a.duration - b.duration)

\* time.rs:26, 32, 40-41, 50, 83: Duration::from_nanos of the u64 of a Time
from_nanos(nanos) == Dur(nanos)

\* time.rs:66: `t.as_nanos() as u64` keeps the low bits of the u128
as_u64(n) == n % NanosModulus

\* time.rs:65-67
from_duration(t) == Time(as_u64(t.duration))

\* time.rs:23-28, 30-34: Add<Duration> and AddAssign<Duration>
time_add(t, dur) ==
    LET sum == duration_add(from_nanos(t.time), dur)
    IN IF Panicked(sum) THEN sum ELSE from_duration(sum)

\* time.rs:36-44: Sub<Time>
time_sub_time(t, other) ==
    duration_sub(from_nanos(t.time), from_nanos(other.time))

\* time.rs:46-53: Sub<Duration>
time_sub_duration(t, other) ==
    LET difference == duration_sub(from_nanos(t.time), other)
    IN IF Panicked(difference) THEN difference
       ELSE from_duration(difference)

\* time.rs:57-59
as_nanos_since_unix_epoch(t) == t.time
\* time.rs:61-63
from_nanos_since_unix_epoch(nanos) == Time(nanos)

\* A conversion that casts where it should check.
try_from_cast(d) == TimeOk(from_duration(d))

\* time.rs:71-80: TryFrom<Duration>
try_from(d) ==
    IF d.duration > NanosModulus - 1
    THEN TimeErr("Duration is too large to be converted into a u64 of nanoseconds!")
    ELSE TimeOk(Time(d.duration))

\* A conversion that keeps the even nanoseconds only.
duration_from_time_coarse(val) == from_nanos((val.time \div 2) * 2)

\* time.rs:82-86: From<Time> for Duration
duration_from_time(val) == from_nanos(val.time)

\* What the operations of time.rs give for the Time t and the Duration d;
\* a panic of an operand is the panic of the expression
TimeOperations ==
    {"add", "add_assign", "nanos_round_trip", "duration_round_trip",
     "try_from", "add_sub_duration", "add_sub_time"}
time_apply(operation, t, d) ==
    CASE operation = "add" -> time_add(t, d)
      [] operation = "add_assign" -> time_add(t, d)
      [] operation = "nanos_round_trip" ->
             [nanos |-> as_nanos_since_unix_epoch(
                            from_nanos_since_unix_epoch(t.time))]
      [] operation = "duration_round_trip" -> try_from(duration_from_time(t))
      [] operation = "try_from" -> try_from(d)
      [] operation = "add_sub_duration" ->
             IF Panicked(time_add(t, d)) THEN time_add(t, d)
             ELSE time_sub_duration(time_add(t, d), d)
      [] operation = "add_sub_time" ->
             IF Panicked(time_add(t, d)) THEN time_add(t, d)
             ELSE time_sub_time(time_add(t, d), t)

NoTimeResult == [operation |-> "none"]

\* One operation of time.rs applied to time_t and time_d
time_operation(operation) ==
    /\ time_result = NoTimeResult
    /\ time_result' = [operation |-> operation,
                       value |-> time_apply(operation, time_t, time_d)]
    /\ UNCHANGED <<time_t, time_d, routerVars, conversionVars, builderVars,
                   serverVars>>

\* No operation of time.rs was applied
NoTimeApplied ==
    /\ time_t = UNIX_EPOCH
    /\ time_d = Dur(0)
    /\ time_result = NoTimeResult

\* No request was routed
NoRequestRouted ==
    /\ req = NoRequest
    /\ routed = NotRouted

(* ----------------------------- bitcoin types ------------------------ *)

\* bitcoin/types/public/src/lib.rs:14-19
Network(variant) == [type |-> "Network", variant |-> variant]
\* lib.rs:47-58: the six variants of NetworkInRequest
NetworkInRequestVariants ==
    {"Mainnet", "mainnet", "Testnet", "testnet", "Regtest", "regtest"}
NetworkInRequest ==
    {[type |-> "NetworkInRequest", variant |-> v] :
        v \in NetworkInRequestVariants}

\* lib.rs:11-12, 89-94, 111-118: a Page is a buffer of bytes
Bytes == {0, 1, 255}
Pages == UNION {[1 .. n -> Bytes] : n \in 0 .. MaxPage}
UtxosFilterInRequest ==
    {[type |-> "UtxosFilterInRequest", variant |-> v, confirmations |-> x] :
        v \in {"MinConfirmations", "min_confirmations"},
        x \in 0 .. MaxConfirmations}
    \cup {[type |-> "UtxosFilterInRequest", variant |-> v, page |-> p] :
             v \in {"Page", "page"}, p \in Pages}

\* A conversion that takes the lower-case regtest for the testnet.
network_from_regtest_confused(network) ==
    Network(CASE network.variant \in {"Mainnet", "mainnet"} -> "Mainnet"
              [] network.variant \in {"Testnet", "testnet", "regtest"} ->
                     "Testnet"
              [] OTHER -> "Regtest")

\* lib.rs:31-42: From<NetworkInRequest> for Network
network_from(network) ==
    Network(CASE network.variant = "Mainnet" -> "Mainnet"
              [] network.variant = "mainnet" -> "Mainnet"
              [] network.variant = "Testnet" -> "Testnet"
              [] network.variant = "testnet" -> "Testnet"
              [] network.variant = "Regtest" -> "Regtest"
              [] network.variant = "regtest" -> "Regtest")

\* lib.rs:21-29: Display for Network
network_display(network) ==
    CASE network.variant = "Mainnet" -> "mainnet"
      [] network.variant = "Testnet" -> "testnet"
      [] network.variant = "Regtest" -> "regtest"

\* lib.rs:60-71: Display for NetworkInRequest
network_in_request_display(network) ==
    CASE network.variant = "Mainnet" -> "mainnet"
      [] network.variant = "Testnet" -> "testnet"
      [] network.variant = "Regtest" -> "regtest"
      [] network.variant = "mainnet" -> "mainnet"
      [] network.variant = "testnet" -> "testnet"
      [] network.variant = "regtest" -> "regtest"

\* A conversion of the lower-case min_confirmations that drops the
\* argument.
utxos_filter_from_default(filter) ==
    IF filter.variant = "min_confirmations"
    THEN [type |-> "UtxosFilter", variant |-> "MinConfirmations",
          confirmations |-> 0]
    ELSE IF filter.variant = "MinConfirmations"
    THEN [type |-> "UtxosFilter", variant |-> "MinConfirmations",
          confirmations |-> filter.confirmations]
    ELSE [type |-> "UtxosFilter", variant |-> "Page", page |-> filter.page]

\* lib.rs:96-105: From<UtxosFilterInRequest> for UtxosFilter
utxos_filter_from(filter) ==
    CASE filter.variant = "MinConfirmations" ->
             [type |-> "UtxosFilter", variant |-> "MinConfirmations",
              confirmations |-> filter.confirmations]
      [] filter.variant = "min_confirmations" ->
             [type |-> "UtxosFilter", variant |-> "MinConfirmations",
              confirmations |-> filter.confirmations]
      [] filter.variant = "Page" ->
             [type |-> "UtxosFilter", variant |-> "Page",
              page |-> filter.page]
      [] filter.variant = "page" ->
             [type |-> "UtxosFilter", variant |-> "Page",
              page |-> filter.page]

NoInRequest == [type |-> "none"]
NotConverted == [operation |-> "none"]

\* lib.rs:31-42: a NetworkInRequest is converted
convert_network ==
    /\ converted = NotConverted
    /\ in_request.type = "NetworkInRequest"
    /\ converted' = [operation |-> "from", value |-> network_from(in_request)]
    /\ UNCHANGED <<in_request, routerVars, timeVars, builderVars, serverVars>>

\* lib.rs:21-29, 60-71: a NetworkInRequest and its Network are displayed
display_network ==
    /\ converted = NotConverted
    /\ in_request.type = "NetworkInRequest"
    /\ converted' =
           [operation |-> "display",
            value |-> [in_request |-> network_in_request_display(in_request),
                       network |-> network_display(network_from(in_request))]]
    /\ UNCHANGED <<in_request, routerVars, timeVars, builderVars, serverVars>>

\* lib.rs:96-105: a UtxosFilterInRequest is converted
convert_utxos_filter ==
    /\ converted = NotConverted
    /\ in_request.type = "UtxosFilterInRequest"
    /\ converted' = [operation |-> "from",
                     value |-> utxos_filter_from(in_request)]
    /\ UNCHANGED <<in_request, routerVars, timeVars, builderVars, serverVars>>

\* No value of a request was converted
NothingConverted ==
    /\ in_request = NoInRequest
    /\ converted = NotConverted

\* No function of the other files was applied
NothingApplied ==
    /\ NoRequestRouted
    /\ NoTimeApplied
    /\ NothingConverted

(* ----------------------------- Init ------------------------------------ *)

\* A builder no call has reached
InitIdle ==
    /\ MAX_BITCOIN_BLOCK_SIZE \in 0 .. MaxFloor
    /\ MAX_XNET_PAYLOAD_IN_BYTES \in 0 .. MaxFloor
    /\ op = "none"
    /\ pc = "idle"
    /\ height = 0
    /\ is_summary = FALSE
    /\ subnet_record = NoRecord
    /\ max_block_payload_size = 0
    /\ accumulated_size = 0
    /\ batch_payload = DefaultBatchPayload
    /\ inspected = {}
    /\ section_select = <<>>
    /\ calls = <<>>
    /\ limits = <<>>
    /\ verdict = NoVerdict
    /\ from_build = FALSE
    /\ prev_call = NoPrevCall
    /\ now = 0
    /\ last_warned = Never
    /\ call_now = 0
    /\ call_counter = 0
    /\ call_last_warned = Never
    /\ passed = <<>>

\* A replica of a subnet other than the NNS whose server was just started
InitFrame ==
    /\ InitIdle
    /\ start_server(FALSE)
    /\ NothingApplied

\* payload_builder.rs:71-95: a builder over a fresh MetricsRegistry
InitCall ==
    /\ InitFrame
    /\ critical_error_subnet_record_data_issue = 0
    /\ get_payload_duration = 0
    /\ validate_payload_duration = 0
    /\ past_payloads_length = 0

\* A builder whose metrics hold what earlier calls left in them: faults
\* counted, and nothing else or a get_payload over one past payload and a
\* validate_payload of half a window each.
InitMetrics ==
    /\ InitFrame
    /\ critical_error_subnet_record_data_issue \in 0 .. (MaxCounter - 1)
    /\ get_payload_duration \in {0, HalfWindow}
    /\ validate_payload_duration = get_payload_duration
    /\ past_payloads_length = get_payload_duration \div HalfWindow
    /\ builders_keep_contract = TRUE
    /\ membership_version = FirstMembership
    /\ offered = NothingOffered
    /\ context = FirstContext
    /\ past_payloads \in PastPayloads

\* The section builders of the repository keep the contract of
\* build_payload: what they report is within the byte_limit they are given.
Init ==
    /\ InitCall
    /\ builders_keep_contract = TRUE
    /\ membership_version = FirstMembership
    /\ offered = NothingOffered
    /\ context = FirstContext
    /\ past_payloads = <<>>

\* Section builders that may report more than the byte_limit they are given.
InitOverReport ==
    /\ InitCall
    /\ builders_keep_contract = FALSE
    /\ membership_version = FirstMembership
    /\ offered = NothingOffered
    /\ context = FirstContext
    /\ past_payloads = <<>>

\* Callers holding any record as subnet_records.membership_version.
InitMembership ==
    /\ InitCall
    /\ builders_keep_contract = TRUE
    /\ membership_version \in SubnetRecord
    /\ offered = NothingOffered
    /\ context = FirstContext
    /\ past_payloads = <<>>

\* Sources holding any amount of content for their sections.
InitOffers ==
    /\ InitCall
    /\ builders_keep_contract = TRUE
    /\ membership_version = FirstMembership
    /\ offered \in [SectionIds -> 0 .. MaxSlice]
    /\ context = FirstContext
    /\ past_payloads = <<>>

\* Callers holding any context and any list of past payloads.
InitArguments ==
    /\ InitCall
    /\ builders_keep_contract = TRUE
    /\ membership_version = FirstMembership
    /\ offered = NothingOffered
    /\ context \in Contexts
    /\ past_payloads \in PastPayloads

\* A replica whose payload builder stays idle
InitPinned ==
    /\ InitIdle
    /\ MAX_BITCOIN_BLOCK_SIZE = 0
    /\ MAX_XNET_PAYLOAD_IN_BYTES = 0
    /\ critical_error_subnet_record_data_issue = 0
    /\ get_payload_duration = 0
    /\ validate_payload_duration = 0
    /\ past_payloads_length = 0
    /\ builders_keep_contract = TRUE
    /\ membership_version = FirstMembership
    /\ offered = NothingOffered
    /\ context = FirstContext
    /\ past_payloads = <<>>

\* A replica on the NNS subnet or on another one, just after start_server
InitServer ==
    /\ InitPinned
    /\ \E nns \in BOOLEAN : start_server(nns)
    /\ NothingApplied

\* make_router before any request of Requests
InitRouter ==
    /\ InitPinned
    /\ start_server(FALSE)
    /\ req \in Requests
    /\ routed = NotRouted
    /\ NoTimeApplied
    /\ NothingConverted

\* The operations of time.rs before they are applied to any Time and
\* Duration
InitTime ==
    /\ InitPinned
    /\ start_server(FALSE)
    /\ NoRequestRouted
    /\ time_t \in Times
    /\ time_d \in Durations
    /\ time_result = NoTimeResult
    /\ NothingConverted

\* The networks and filters of requests before they are converted
InitConversions ==
    /\ InitPinned
    /\ start_server(FALSE)
    /\ NoRequestRouted
    /\ NoTimeApplied
    /\ in_request \in NetworkInRequest \cup UtxosFilterInRequest
    /\ converted = NotConverted

(* ----------------------------- get_payload ----------------------------- *)

\* The histogram of past_payloads_length is followed up to MaxObserved.
ObservedRoom == past_payloads_length + Len(past_payloads) <= MaxObserved

\* The argument subnet_records of a get_payload call
subnet_records(records_context_version) ==
    [membership_version |-> membership_version,
     context_version |-> records_context_version]

\* The budget resolved from the membership record.
budget_record_of_membership(records) == records.membership_version

\* payload_builder.rs:120-122: `&subnet_records.context_version`
budget_record(records) == records.context_version

\* payload_builder.rs:99-125: rotation, budget, empty BatchPayload
get_payload_begin(h, records_context_version) ==
    /\ pc = "idle"
    /\ ObservedRoom
    /\ past_payloads_length' = past_payloads_length + Len(past_payloads)
    /\ UNCHANGED <<get_payload_duration, validate_payload_duration>>
    /\ CounterRoom(budget_record(subnet_records(records_context_version)))
    /\ op' = "get_payload"
    /\ pc' = "sections"
    /\ height' = h
    /\ is_summary' = FALSE
    /\ subnet_record' = records_context_version
    /\ section_select' = rotated_section_select(h)
    /\ max_block_payload_size' =
           get_max_block_payload_size_bytes(
               budget_record(subnet_records(records_context_version)))
    /\ get_max_block_payload_size_bytes_effects(
           budget_record(subnet_records(records_context_version)))
    /\ batch_payload' = DefaultBatchPayload
    /\ accumulated_size' = 0
    /\ inspected' = {}
    /\ calls' = <<>>
    /\ limits' = <<>>
    /\ verdict' = NoVerdict
    /\ from_build' = FALSE
    /\ prev_call' = NoPrevCall
    /\ passed' = <<>>
    /\ CallStarts
    /\ UNCHANGED <<fixedVars, now>>

\* The whole budget handed to every section, whatever was used before.
build_byte_limit_whole(max_size, accumulated) == max_size

\* Half of what is left handed to the next section.
build_byte_limit_half_share(max_size, accumulated) ==
    saturating_sub(max_size, accumulated) \div 2

\* payload_builder.rs:133-137: the byte_limit of the next section
build_byte_limit(max_size, accumulated) ==
    saturating_sub(max_size, accumulated)

\* What a section's build_payload may report when given byte_limit: within
\* byte_limit when the builders keep their contract, one byte over it too
\* when they do not.
BuildAnswers(byte_limit) ==
    {b \in 0 .. MaxSlice : b <= byte_limit} \cup {byte_limit}
        \cup (IF builders_keep_contract THEN {} ELSE {byte_limit + 1})

\* The loop left one section before the end of section_select.
build_loop_done_one_short(n_called, max_size, accumulated) ==
    n_called >= num_sections - 1

\* The loop left as soon as the budget is used up.
build_loop_done_when_full(n_called, max_size, accumulated) ==
    n_called = num_sections \/ accumulated >= max_size

\* payload_builder.rs:127: `for section_id in section_select` ends when the
\* num_sections ids are consumed; neither the budget nor what the sections
\* reported ends it
build_loop_done(n_called, max_size, accumulated) == n_called = num_sections

\* Every section handed an empty BatchPayload of its own.
section_writes_fresh(batch, section_id, bytes_used) ==
    [DefaultBatchPayload EXCEPT ![section_id] = Slice(bytes_used)]

\* payload_builder.rs:130: every section is handed `&mut batch_payload`, the
\* one BatchPayload of the call, and fills in its own slice
section_writes(batch, section_id, bytes_used) ==
    [batch EXCEPT ![section_id] = Slice(bytes_used)]

\* What a section builder reports when its source holds `offer` bytes: all
\* of it when it fits in byte_limit, else some part that fits.
OfferAnswers(offer, byte_limit) ==
    IF offer <= byte_limit
    THEN {offer}
    ELSE {b \in 0 .. MaxSlice : b <= byte_limit}

\* payload_builder.rs:127-143: one iteration of the build loop
get_payload_section(bytes_used) ==
    /\ op = "get_payload"
    /\ pc = "sections"
    /\ ~build_loop_done(Len(calls), max_block_payload_size, accumulated_size)
    /\ LET section_id == section_select[Len(calls) + 1]
           byte_limit == build_byte_limit(max_block_payload_size,
                                          accumulated_size)
       IN /\ bytes_used \in BuildAnswers(byte_limit)
          /\ batch_payload' =
                 section_writes(batch_payload, section_id, bytes_used)
          /\ accumulated_size' = accumulated_size + bytes_used
          /\ calls' = Append(calls, section_id)
          /\ limits' = Append(limits, byte_limit)
    /\ passed' = Append(passed,
                        section_arguments(height, context, past_payloads))
    /\ UNCHANGED <<fixedVars, op, pc, height, is_summary, subnet_record,
                   max_block_payload_size, inspected, section_select,
                   verdict, from_build, prev_call, envVars, now, startVars,
                   histogramVars>>

\* payload_builder.rs:145: the loop is over, batch_payload is returned
get_payload_return ==
    /\ op = "get_payload"
    /\ pc = "sections"
    /\ build_loop_done(Len(calls), max_block_payload_size, accumulated_size)
    /\ pc' = "done"
    /\ get_payload_duration' = stop_timer(get_payload_duration, call_now)
    /\ UNCHANGED <<validate_payload_duration, past_payloads_length>>
    /\ UNCHANGED <<fixedVars, passed, op, height, is_summary, subnet_record,
                   max_block_payload_size, accumulated_size, batch_payload,
                   inspected, section_select, calls, limits, verdict,
                   from_build, prev_call, envVars, now, startVars>>

(* ----------------------------- validate_payload ------------------------ *)

\* utils::get_subnet_record: the error returned when the registry has no
\* record that can be obtained at context.registry_version
get_subnet_record_error == TransientError

\* payload_builder.rs:185-195
get_subnet_record(registry_record) ==
    IF registry_record = NoRecord
    THEN get_subnet_record_error
    ELSE Ok

\* The registry lookup made before the summary check.
validate_payload_early_return_lookup_first(summary, registry_record) ==
    IF get_subnet_record(registry_record) # Ok
    THEN get_subnet_record(registry_record)
    ELSE IF summary
    THEN Ok
    ELSE NoVerdict

\* A failed registry lookup ignored: validation goes on with the record
\* as it is.
validate_payload_early_return_no_lookup_error(summary, registry_record) ==
    IF summary THEN Ok ELSE NoVerdict

\* payload_builder.rs:156-160: the result validate_payload returns before it
\* resolves a budget, NoVerdict when it goes on
validate_payload_early_return(summary, registry_record) ==
    IF summary
    THEN Ok
    ELSE IF get_subnet_record(registry_record) # Ok
    THEN get_subnet_record(registry_record)
    ELSE NoVerdict

\* The fault counted before the early returns.
early_return_effects_counted ==
    /\ critical_error_subnet_record_data_issue' =
           critical_error_subnet_record_data_issue + 1
    /\ last_warned' = last_warned

\* payload_builder.rs:156-160: both early returns come before the resolver
\* of line 163 is called
early_return_effects == UNCHANGED envVars

\* payload_builder.rs:148-165: summary check, registry lookup, budget.
\* registry_record is what the registry holds at context.registry_version.
validate_payload_begin(h, summary, registry_record) ==
    /\ op' = "validate_payload"
    /\ height' = h
    /\ is_summary' = summary
    /\ subnet_record' = registry_record
    /\ accumulated_size' = 0
    /\ section_select' = <<>>
    /\ calls' = <<>>
    /\ limits' = <<>>
    /\ IF validate_payload_early_return(summary, registry_record) # NoVerdict
       THEN /\ verdict' = validate_payload_early_return(summary,
                                                        registry_record)
            /\ pc' = "done"
            /\ max_block_payload_size' = 0
            /\ early_return_effects
            /\ validate_payload_duration' =
                   stop_timer(validate_payload_duration, now)
       ELSE /\ CounterRoom(registry_record)
            /\ verdict' = NoVerdict
            /\ pc' = "sections"
            /\ max_block_payload_size' =
                   get_max_block_payload_size_bytes(registry_record)
            /\ get_max_block_payload_size_bytes_effects(registry_record)
            /\ validate_payload_duration' = validate_payload_duration
    /\ passed' = <<>>
    /\ CallStarts
    /\ UNCHANGED <<fixedVars, now, get_payload_duration,
                   past_payloads_length>>

\* A validate_payload call on a payload received from elsewhere: nothing is
\* known of its slices until a section's validate inspects them.
validate_payload_received(h, summary, registry_record) ==
    /\ pc = "idle"
    /\ validate_payload_begin(h, summary, registry_record)
    /\ batch_payload' = DefaultBatchPayload
    /\ inspected' = {}
    /\ from_build' = FALSE
    /\ prev_call' = NoPrevCall

\* A validate_payload call on the payload get_payload just returned, wrapped
\* as a data payload, with the height and context of that call; the registry
\* holds the record Build used (test_payload_size_validation, lines 444-451).
validate_payload_built ==
    /\ op = "get_payload"
    /\ pc = "done"
    /\ validate_payload_begin(height, FALSE, subnet_record)
    /\ batch_payload' = batch_payload
    /\ inspected' = SectionIds
    /\ from_build' = TRUE
    /\ prev_call' = NoPrevCall

\* A second validate_payload call with the arguments and the registry state
\* of the call that just returned.
validate_payload_again ==
    /\ op = "validate_payload"
    /\ pc = "done"
    /\ validate_payload_begin(height, is_summary, subnet_record)
    /\ batch_payload' = batch_payload
    /\ inspected' = inspected
    /\ from_build' = from_build
    /\ prev_call' =
           [verdict |-> verdict, now |-> call_now,
            counter |-> call_counter, last_warned |-> call_last_warned]

\* The slices a received payload may hold for a section
Slices == {Slice(b) : b \in SliceSizes} \cup {MalformedSlice}

\* An empty, a full and a refused slice
FewSlices == {Slice(0), Slice(MaxSlice), MalformedSlice}

\* The section's error dropped: a slice the section refuses counts as empty.
section_validate_ok_always(slice) == TRUE

\* payload_builder.rs:167-168: the section's validate_payload on its slice
\* returns the bytes of the slice (TRUE), or the section's error, which `?`
\* returns from validate_payload (FALSE)
section_validate_ok(slice) == slice.valid

\* The comparison with >= in the place of >
exceeds_budget_or_equal(accumulated, max_size) == accumulated >= max_size

\* payload_builder.rs:169
exceeds_budget(accumulated, max_size) == accumulated > max_size

\* PayloadTooBig with its two fields swapped
payload_too_big_error_swapped(max_size, accumulated) ==
    PayloadTooBig(accumulated, max_size)

\* payload_builder.rs:170-175
payload_too_big_error(max_size, accumulated) ==
    PayloadTooBig(max_size, accumulated)

\* Validation following the rotation of Build.
validate_section_index_rotated(n_called, h) ==
    rotated_section_select(h)[n_called + 1]

\* payload_builder.rs:166: `for builder in &self.section_builder`, the
\* section validated after n_called others, at any height
validate_section_index(n_called, h) == n_called

\* The section's error replaced by a transient failure of the whole call.
section_error_as_transient(section_id) == TransientError

\* payload_builder.rs:167-168: `?` returns the error of the section's
\* validate_payload as the result of the call
section_error(section_id) == SectionError(section_id)

\* payload_builder.rs:166-177: one iteration of the validation loop
validate_payload_section(slice) ==
    /\ op = "validate_payload"
    /\ pc = "sections"
    /\ Len(calls) < num_sections
    /\ LET section_id == validate_section_index(Len(calls), height)
           total == accumulated_size + slice.bytes
       IN /\ slice \in Slices
          /\ section_id \in inspected => slice = batch_payload[section_id]
          /\ batch_payload' = [batch_payload EXCEPT ![section_id] = slice]
          /\ inspected' = inspected \cup {section_id}
          /\ calls' = Append(calls, section_id)
          /\ IF ~section_validate_ok(slice)
             THEN /\ verdict' = section_error(section_id)
                  /\ pc' = "done"
                  /\ accumulated_size' = accumulated_size
             ELSE IF exceeds_budget(total, max_block_payload_size)
             THEN /\ verdict' =
                         payload_too_big_error(max_block_payload_size, total)
                  /\ pc' = "done"
                  /\ accumulated_size' = total
             ELSE /\ verdict' = verdict
                  /\ pc' = pc
                  /\ accumulated_size' = total
    /\ passed' = Append(passed,
                        section_arguments(height, context, past_payloads))
    /\ validate_payload_duration' =
           IF pc' = "done"
           THEN stop_timer(validate_payload_duration, call_now)
           ELSE validate_payload_duration
    /\ UNCHANGED <<fixedVars, op, height, is_summary, subnet_record,
                   max_block_payload_size, section_select, limits,
                   from_build, prev_call, envVars, now, startVars,
                   get_payload_duration, past_payloads_length>>

\* payload_builder.rs:178: every section validated within the budget
validate_payload_return ==
    /\ op = "validate_payload"
    /\ pc = "sections"
    /\ Len(calls) = num_sections
    /\ verdict' = Ok
    /\ pc' = "done"
    /\ validate_payload_duration' =
           stop_timer(validate_payload_duration, call_now)
    /\ UNCHANGED <<get_payload_duration, past_payloads_length>>
    /\ UNCHANGED <<fixedVars, passed, op, height, is_summary, subnet_record,
                   max_block_payload_size, accumulated_size, batch_payload,
                   inspected, section_select, calls, limits, from_build,
                   prev_call, envVars, now, startVars>>

(* ----------------------------- environment ----------------------------- *)

\* The caller takes the result of the call; the locals of the call are gone.
Return ==
    /\ pc = "done"
    /\ op' = "none"
    /\ pc' = "idle"
    /\ height' = 0
    /\ is_summary' = FALSE
    /\ subnet_record' = NoRecord
    /\ max_block_payload_size' = 0
    /\ accumulated_size' = 0
    /\ batch_payload' = DefaultBatchPayload
    /\ inspected' = {}
    /\ section_select' = <<>>
    /\ calls' = <<>>
    /\ limits' = <<>>
    /\ verdict' = NoVerdict
    /\ from_build' = FALSE
    /\ prev_call' = NoPrevCall
    /\ call_now' = 0
    /\ call_counter' = 0
    /\ call_last_warned' = Never
    /\ passed' = <<>>
    /\ UNCHANGED <<fixedVars, envVars, now, histogramVars>>

\* Wall-clock time passes.  The clock is read only where a call resolves its
\* budget, so time passing inside a call is time passing after it.
Tick ==
    /\ pc \in {"idle", "done"}
    /\ now < MaxTicks * TickSeconds
    /\ now' = now + TickSeconds
    /\ UNCHANGED <<fixedVars, passed, op, pc, height, is_summary, subnet_record,
                   max_block_payload_size, accumulated_size, batch_payload,
                   inspected, section_select, calls, limits, verdict,
                   from_build, prev_call, envVars, startVars,
                   histogramVars>>

\* Wall-clock time passes at any point, inside a call too, by half a
\* window from the start of a cooldown window to the start of the next one.
clock_advances ==
    /\ now < WARN_EVERY_N_SECONDS
    /\ now' = now + HalfWindow
    /\ UNCHANGED <<fixedVars, passed, op, pc, height, is_summary,
                   subnet_record, max_block_payload_size, accumulated_size,
                   batch_payload, inspected, section_select, calls, limits,
                   verdict, from_build, prev_call, envVars, startVars,
                   histogramVars>>

\* accumulated_size kept in the builder and reset by every call that starts.
other_call_locals_shared_accumulator ==
    /\ accumulated_size' = 0
    /\ UNCHANGED <<passed, op, pc, height, is_summary, subnet_record,
                   max_block_payload_size, batch_payload, inspected,
                   section_select, calls, limits, verdict, from_build,
                   prev_call>>

\* payload_builder.rs:116-125 and 159-165: section_select, the budget,
\* batch_payload and accumulated_size are locals of the call that declares
\* them; the methods take &self and write no field of the builder
other_call_locals ==
    UNCHANGED <<passed, op, pc, height, is_summary, subnet_record,
                max_block_payload_size, accumulated_size, batch_payload,
                inspected, section_select, calls, limits, verdict,
                from_build, prev_call>>

\* A get_payload or validate_payload call of another thread resolves its
\* budget from `record` while the call followed here is in its loop: the
\* counter and the cooldown of the warning are what the two calls share.
other_thread_call(record) ==
    /\ pc = "sections"
    /\ CounterRoom(record)
    /\ get_max_block_payload_size_bytes_effects(record)
    /\ other_call_locals
    /\ UNCHANGED <<fixedVars, now, startVars, histogramVars>>

(* ----------------------------- accept loop -------------------------- *)

\* A semaphore that hands out permits it does not have.
acquire_ready_always(permits) == TRUE

\* ObservableCountingSemaphore::acquire completes when a permit is free
acquire_ready(permits) == permits > 0

\* lib.rs:392: `outstanding_connections.acquire().await`
acquire ==
    /\ accept_loop = "running"
    /\ ~request_permit
    /\ acquire_ready(outstanding_connections)
    /\ outstanding_connections' = outstanding_connections - 1
    /\ request_permit' = TRUE
    /\ UNCHANGED <<connection_tasks, connections_total, accept_loop,
                   accept_errors, last_observed, initializationVars,
                   builderVars, appliedVars>>

\* lib.rs:393-400: accept gives a stream; the task spawned for it takes
\* the permit.  connections_total is followed up to MaxAccepts.
accept_ok ==
    /\ accept_loop = "running"
    /\ request_permit
    /\ connections_total < MaxAccepts
    /\ connections_total' = connections_total + 1
    /\ connection_tasks' =
           [connection_tasks EXCEPT !["peek"] = connection_tasks["peek"] + 1]
    /\ request_permit' = FALSE
    /\ UNCHANGED <<outstanding_connections, accept_loop, accept_errors,
                   last_observed, initializationVars, builderVars, appliedVars>>

\* A loop that an accept error ends.
after_accept_error_exit == "ended"

\* lib.rs:451-458: "Don't exit the loop on a connection error": the Err
\* arm falls through to the next iteration
after_accept_error == "running"

\* lib.rs:453-458: accept fails; the error is observed and the permit is
\* dropped as the iteration of the loop ends.  The errors are followed up
\* to MaxAcceptErrors.
accept_err ==
    /\ accept_loop = "running"
    /\ request_permit
    /\ accept_errors < MaxAcceptErrors
    /\ accept_errors' = accept_errors + 1
    /\ request_permit' = FALSE
    /\ outstanding_connections' = outstanding_connections + 1
    /\ accept_loop' = after_accept_error
    /\ UNCHANGED <<connection_tasks, connections_total, last_observed,
                   initializationVars, builderVars, appliedVars>>

\* A task moves from position `from` to position `to`
task_moves(from, to) ==
    /\ connection_tasks[from] > 0
    /\ connection_tasks' =
           [connection_tasks EXCEPT ![from] = connection_tasks[from] - 1,
                                    ![to] = connection_tasks[to] + 1]
    /\ UNCHANGED <<outstanding_connections, request_permit,
                   connections_total, accept_loop, accept_errors,
                   initializationVars, builderVars, appliedVars>>

\* A task ends and keeps its permit.
task_end_release_leaked(permits) == permits

\* lib.rs:399-400: `_request_permit_deleter` is dropped with the task
task_end_release(permits) == permits + 1

\* A task at position `from` ends
task_ends(from) ==
    /\ connection_tasks[from] > 0
    /\ connection_tasks' =
           [connection_tasks EXCEPT ![from] = connection_tasks[from] - 1]
    /\ outstanding_connections' = task_end_release(outstanding_connections)
    /\ UNCHANGED <<request_permit, connections_total, accept_loop,
                   accept_errors, initializationVars, builderVars, appliedVars>>

\* lib.rs:401-446: the peek chooses the application layer; after an error
\* or a timeout the task goes on to serve the connection as Http
peek(peek_result) ==
    /\ task_moves("peek", peeked_app_layer(peek_result))
    /\ last_observed' = [step |-> "peek", result |-> peek_result]

\* lib.rs:516-536: the handshake fails and serve_connection returns, or
\* the stream is served
tls_handshake(ok) ==
    /\ IF ok THEN task_moves("tls_handshake", "https")
       ELSE task_ends("tls_handshake")
    /\ last_observed' = [step |-> "tls_handshake", ok |-> ok]

\* lib.rs:538-558: hyper is done with the connection, Ok or Err
connection_closed(app_layer) ==
    /\ task_ends(app_layer)
    /\ last_observed' = [step |-> "closed", app_layer |-> app_layer]

(* ----------------------------- initialization ----------------------- *)

\* A wait loop that does not look at the state reader.
certified_state_available_assumed(certified) == TRUE

\* lib.rs:186-188: `get_latest_certified_state(..).await.is_none()` ends
\* the wait when it is false
certified_state_available(certified) == certified

\* lib.rs:181-185: the spawned task starts
initialization_begins ==
    /\ init_pc = "spawned"
    /\ health_status' = "WaitingForCertifiedState"
    /\ init_pc' = "waiting_for_certified_state"
    /\ UNCHANGED <<on_nns_subnet, certified_state, delegation_from_nns,
                   loaded_delegation, fetching_root_delagation_attempts,
                   last_attempt, connectionVars, builderVars, appliedVars>>

\* The state manager certifies a state.
state_certified ==
    /\ ~certified_state
    /\ certified_state' = TRUE
    /\ UNCHANGED <<on_nns_subnet, health_status, delegation_from_nns,
                   init_pc, loaded_delegation,
                   fetching_root_delagation_attempts, last_attempt,
                   connectionVars, builderVars, appliedVars>>

\* lib.rs:186-196: one round of the wait loop; it sleeps a second, or
\* leaves the loop and sets WaitingForRootDelegation
poll_certified_state ==
    /\ init_pc = "waiting_for_certified_state"
    /\ IF certified_state_available(certified_state)
       THEN /\ health_status' = "WaitingForRootDelegation"
            /\ init_pc' = "load_root_delegation"
       ELSE UNCHANGED <<health_status, init_pc>>
    /\ UNCHANGED <<on_nns_subnet, certified_state, delegation_from_nns,
                   loaded_delegation, fetching_root_delagation_attempts,
                   last_attempt, connectionVars, builderVars, appliedVars>>

\* A comparison of the two public keys that accepts any pair.
keys_match_unchecked(from_certificate, from_registry) == TRUE

\* lib.rs:897: `public_key_from_certificate != own_public_key_from_registry`
keys_match(from_certificate, from_registry) ==
    from_certificate = from_registry

\* lib.rs:943-947: the certificate validates against the root public key
validate_subnet_delegation_certificate(certificate, root_threshold_public_key) ==
    certificate.signed_by = root_threshold_public_key

\* lib.rs:751-968: how one round of the loop ends, by the first step of
\* the round that fails
attempt_outcome(a) ==
    IF a.fetch.step = "no_node" THEN "fatal"
    ELSE IF a.fetch.step = "bad_ip_address" THEN "panic"
    ELSE IF a.fetch.step \in FetchFailures THEN "backoff"
    ELSE IF a.registry_pk \in {"none", "error"} THEN "backoff"
    ELSE IF a.fetch.public_key \in {"absent", "not_der"} THEN "backoff"
    ELSE IF ~keys_match(a.fetch.public_key, a.registry_pk) THEN "backoff"
    ELSE IF a.root_pk \in {"none", "not_der"} THEN "backoff"
    ELSE IF ~validate_subnet_delegation_certificate(a.fetch, a.root_pk)
    THEN "backoff"
    ELSE "return"

\* lib.rs:956-959: the CertificateDelegation of the response's certificate
CertificateDelegation(certificate) ==
    [kind |-> "Some", certificate |-> certificate]

\* A load_root_delegation that fetches on every subnet.
skips_fetching_never(nns) == FALSE

\* lib.rs:728: `if subnet_id == nns_subnet_id`
skips_fetching(nns) == nns

\* lib.rs:728-732: on the NNS subnet nothing is fetched
load_root_delegation_on_nns ==
    /\ init_pc = "load_root_delegation"
    /\ skips_fetching(on_nns_subnet)
    /\ loaded_delegation' = NoDelegation
    /\ init_pc' = "returned"
    /\ UNCHANGED <<on_nns_subnet, certified_state, health_status,
                   delegation_from_nns, fetching_root_delagation_attempts,
                   last_attempt, connectionVars, builderVars, appliedVars>>

\* lib.rs:735-973: one round of the loop meeting the answers `a`; it is
\* followed for MaxAttempts rounds
load_root_delegation_attempt(a) ==
    /\ init_pc = "load_root_delegation"
    /\ ~skips_fetching(on_nns_subnet)
    /\ fetching_root_delagation_attempts < MaxAttempts
    /\ fetching_root_delagation_attempts' =
           fetching_root_delagation_attempts + 1
    /\ last_attempt' = a
    /\ init_pc' = CASE attempt_outcome(a) = "return" -> "returned"
                    [] attempt_outcome(a) = "backoff" -> "load_root_delegation"
                    [] OTHER -> "aborted"
    /\ loaded_delegation' = IF attempt_outcome(a) = "return"
                            THEN CertificateDelegation(a.fetch)
                            ELSE loaded_delegation
    /\ UNCHANGED <<on_nns_subnet, certified_state, health_status,
                   delegation_from_nns, connectionVars, builderVars, appliedVars>>

\* lib.rs:210: the loaded delegation is stored
store_delegation ==
    /\ init_pc = "returned"
    /\ delegation_from_nns' = loaded_delegation
    /\ init_pc' = "stored"
    /\ UNCHANGED <<on_nns_subnet, certified_state, health_status,
                   loaded_delegation, fetching_root_delagation_attempts,
                   last_attempt, connectionVars, builderVars, appliedVars>>

\* lib.rs:211-216: the status is set to Healthy
set_healthy ==
    /\ init_pc = "stored"
    /\ health_status' = "Healthy"
    /\ init_pc' = "ready"
    /\ UNCHANGED <<on_nns_subnet, certified_state, delegation_from_nns,
                   loaded_delegation, fetching_root_delagation_attempts,
                   last_attempt, connectionVars, builderVars, appliedVars>>

(* ----------------------------- specification --------------------------- *)

Heights == 0 .. MaxHeight

Next ==
    \/ \E h \in Heights, r \in SubnetRecord : get_payload_begin(h, r)
    \/ \E b \in BuildAnswers(build_byte_limit(max_block_payload_size,
                                                accumulated_size)) :
           get_payload_section(b)
    \/ get_payload_return
    \/ \E h \in Heights, s \in BOOLEAN, r \in SubnetRecord \cup {NoRecord} :
           validate_payload_received(h, s, r)
    \/ validate_payload_built
    \/ \E sl \in Slices : validate_payload_section(sl)
    \/ validate_payload_return
    \/ Return

Spec == Init /\ [][Next]_vars

\* Calls repeated with the same arguments while the clock, the counter and
\* the warning cooldown move on.
ReplayHeights == {0, MaxHeight}

NextReplay ==
    \/ \E h \in ReplayHeights, r \in SubnetRecord : get_payload_begin(h, r)
    \/ \E b \in BuildAnswers(build_byte_limit(max_block_payload_size,
                                                accumulated_size)) :
           get_payload_section(b)
    \/ get_payload_return
    \/ \E h \in ReplayHeights, s \in BOOLEAN,
          r \in SubnetRecord \cup {NoRecord} :
           validate_payload_received(h, s, r)
    \/ validate_payload_again
    \/ \E sl \in Slices : validate_payload_section(sl)
    \/ validate_payload_return
    \/ Return
    \/ Tick

SpecReplay == Init /\ [][NextReplay]_vars

\* get_payload calls over section builders that may over-report.
NextOverReport ==
    \/ \E h \in Heights, r \in SubnetRecord : get_payload_begin(h, r)
    \/ \E b \in BuildAnswers(build_byte_limit(max_block_payload_size,
                                                accumulated_size)) :
           get_payload_section(b)
    \/ get_payload_return
    \/ Return

SpecOverReport == InitOverReport /\ [][NextOverReport]_vars

\* Calls of callers holding any context and any list of past payloads.
NextArguments ==
    \/ \E h \in {MaxHeight}, r \in SubnetRecord : get_payload_begin(h, r)
    \/ \E b \in BuildAnswers(build_byte_limit(max_block_payload_size,
                                                accumulated_size)) :
           get_payload_section(b)
    \/ get_payload_return
    \/ \E h \in {MaxHeight}, s \in BOOLEAN,
          r \in SubnetRecord \cup {NoRecord} :
           validate_payload_received(h, s, r)
    \/ \E sl \in FewSlices : validate_payload_section(sl)
    \/ validate_payload_return
    \/ Return

SpecArguments == InitArguments /\ [][NextArguments]_vars

\* get_payload calls of callers holding any membership record.
NextMembership ==
    \/ \E r \in SubnetRecord : get_payload_begin(MaxHeight, r)
    \/ \E b \in BuildAnswers(build_byte_limit(max_block_payload_size,
                                                accumulated_size)) :
           get_payload_section(b)
    \/ get_payload_return
    \/ Return

SpecMembership == InitMembership /\ [][NextMembership]_vars

\* Calls on a builder whose metrics hold any values.
NextMetrics ==
    \/ \E r \in SubnetRecord : get_payload_begin(MaxHeight, r)
    \/ \E b \in BuildAnswers(build_byte_limit(max_block_payload_size,
                                                accumulated_size)) :
           get_payload_section(b)
    \/ get_payload_return
    \/ \E s \in BOOLEAN, r \in SubnetRecord \cup {NoRecord} :
           validate_payload_received(MaxHeight, s, r)
    \/ \E sl \in FewSlices : validate_payload_section(sl)
    \/ validate_payload_return
    \/ Return

SpecMetrics == InitMetrics /\ [][NextMetrics]_vars

\* get_payload calls over section builders that include what their sources
\* hold whenever it fits.
NextOffers ==
    \/ \E h \in {1, MaxHeight}, r \in SubnetRecord : get_payload_begin(h, r)
    \/ /\ op = "get_payload"
       /\ pc = "sections"
       /\ Len(calls) < num_sections
       /\ \E b \in OfferAnswers(offered[section_select[Len(calls) + 1]],
                                 build_byte_limit(max_block_payload_size,
                                                  accumulated_size)) :
              get_payload_section(b)
    \/ get_payload_return
    \/ Return

SpecOffers == InitOffers /\ [][NextOffers]_vars

\* One call followed step by step while other threads call the builder and
\* the clock runs.
NextConcurrent ==
    \/ \E h \in {MaxHeight}, r \in SubnetRecord : get_payload_begin(h, r)
    \/ \E b \in BuildAnswers(build_byte_limit(max_block_payload_size,
                                                accumulated_size)) :
           get_payload_section(b)
    \/ get_payload_return
    \/ \E h \in {MaxHeight}, s \in BOOLEAN,
          r \in SubnetRecord \cup {NoRecord} :
           validate_payload_received(h, s, r)
    \/ \E sl \in FewSlices : validate_payload_section(sl)
    \/ validate_payload_return
    \/ Return
    \/ clock_advances
    \/ \E r \in {ScenarioRecord, FirstMembership} : other_thread_call(r)

SpecConcurrent == Init /\ [][NextConcurrent]_vars

\* The accept loop and the connection tasks it spawns.
NextConnections ==
    \/ acquire
    \/ accept_ok
    \/ accept_err
    \/ \E r \in PeekResults : peek(r)
    \/ \E ok \in BOOLEAN : tls_handshake(ok)
    \/ \E a \in {"https", "http"} : connection_closed(a)

SpecConnections == InitServer /\ [][NextConnections]_vars

\* The initialization task of the server.
NextInitialization ==
    \/ initialization_begins
    \/ state_certified
    \/ poll_certified_state
    \/ load_root_delegation_on_nns
    \/ \E a \in AttemptAnswers : load_root_delegation_attempt(a)
    \/ store_delegation
    \/ set_healthy

SpecInitialization == InitServer /\ [][NextInitialization]_vars

\* The initialization task as the tokio runtime runs it: a spawned task
\* that can take a step is polled again; nothing is assumed of the state
\* manager or of the answers the rounds of load_root_delegation meet.
SpecInitializationFair ==
    /\ SpecInitialization
    /\ WF_vars(initialization_begins)
    /\ WF_vars(poll_certified_state)
    /\ WF_vars(load_root_delegation_on_nns)
    /\ WF_vars(store_delegation)
    /\ WF_vars(set_healthy)

\* make_router applied to a request.
NextRouter == make_router

SpecRouter == InitRouter /\ [][NextRouter]_vars

\* The operations of time.rs applied to a Time and a Duration.
NextTime == \E operation \in TimeOperations : time_operation(operation)

SpecTime == InitTime /\ [][NextTime]_vars

\* The conversions of the bitcoin types applied to the values of requests.
NextConversions ==
    \/ convert_network
    \/ display_network
    \/ convert_utxos_filter

SpecConversions == InitConversions /\ [][NextConversions]_vars

TypeOK ==
    /\ op \in {"none", "get_payload", "validate_payload"}
    /\ pc \in {"idle", "sections", "done"}
    /\ height \in Heights
    /\ subnet_record \in SubnetRecord \cup {NoRecord}
    /\ accumulated_size \in Nat
    /\ Len(calls) <= num_sections

(* ----------------------------- properties ------------------------------ *)

RECURSIVE SumBytes(_, _)
\* The bytes of the slices of `sections` in payload `batch`
SumBytes(batch, sections) ==
    IF sections = {}
    THEN 0
    ELSE LET s == CHOOSE x \in sections : TRUE
         IN batch[s].bytes + SumBytes(batch, sections \ {s})

\* The bytes of the first j sections of the fixed order
PrefixSum(j) == SumBytes(batch_payload, 0 .. (j - 1))

\* The largest of three numbers, by its defining property
Largest(a, b, c) == CHOOSE m \in {a, b, c} : \A x \in {a, b, c} : m >= x

\* The floor the claims name for a record
RequiredMin(record) ==
    Largest(MAX_BITCOIN_BLOCK_SIZE, MAX_XNET_PAYLOAD_IN_BYTES,
            record.max_ingress_bytes_per_message)

\* The call resolved a budget from subnet_record
Resolved ==
    \/ op = "get_payload"
    \/ op = "validate_payload" /\ ~is_summary /\ subnet_record # NoRecord

\* C1. No overflow in Build: with section builders that keep their contract
\* (bytes_used <= byte_limit), the bytes reported by the sections of one
\* get_payload call never add up to more than the budget
\* get_max_block_payload_size_bytes returns for subnet_records.context_version.
C1_NoOverflowInBuild ==
    op = "get_payload" =>
        SumBytes(batch_payload, SectionIds)
            <= get_max_block_payload_size_bytes(subnet_record)

\* A build that filled the budget exactly with what two or more sections
\* reported.
C1_Witness ==
    /\ op = "get_payload"
    /\ pc = "done"
    /\ max_block_payload_size > 0
    /\ SumBytes(batch_payload, SectionIds) = max_block_payload_size
    /\ Cardinality({s \in SectionIds : batch_payload[s].bytes > 0}) >= 2

C3_BudgetFloor ==
    Resolved =>
        /\ max_block_payload_size >= MAX_BITCOIN_BLOCK_SIZE
        /\ max_block_payload_size >= MAX_XNET_PAYLOAD_IN_BYTES
        /\ max_block_payload_size >= subnet_record.max_ingress_bytes_per_message

\* A validation whose record allows less than MAX_XNET_PAYLOAD_IN_BYTES, the
\* largest of the three floors.
C3_Witness ==
    /\ op = "validate_payload"
    /\ Resolved
    /\ subnet_record.max_block_payload_size < MAX_XNET_PAYLOAD_IN_BYTES
    /\ MAX_XNET_PAYLOAD_IN_BYTES > MAX_BITCOIN_BLOCK_SIZE
    /\ MAX_XNET_PAYLOAD_IN_BYTES > subnet_record.max_ingress_bytes_per_message

\* C4. Resolver value: with required_min the largest of the two fixed floors
\* and max_ingress_bytes_per_message, the budget is required_min when
\* max_block_payload_size < required_min and max_block_payload_size
\* otherwise; floors 0, max_ingress_bytes_per_message 1_000_000 and
\* max_block_payload_size 500 give 1_000_000.
C4_ResolverValue ==
    Resolved =>
        /\ subnet_record.max_block_payload_size < RequiredMin(subnet_record)
               => max_block_payload_size = RequiredMin(subnet_record)
        /\ subnet_record.max_block_payload_size >= RequiredMin(subnet_record)
               => max_block_payload_size = subnet_record.max_block_payload_size
        /\ (/\ MAX_BITCOIN_BLOCK_SIZE = 0
            /\ MAX_XNET_PAYLOAD_IN_BYTES = 0
            /\ subnet_record = ScenarioRecord)
               => max_block_payload_size = 1000000

\* The two cases of the resolver, and the concrete scenario, are reached; the
\* witness is the record whose max_block_payload_size stays as it is, above
\* required_min.
C4_Witness ==
    /\ Resolved
    /\ subnet_record.max_block_payload_size > RequiredMin(subnet_record)
    /\ max_block_payload_size = subnet_record.max_block_payload_size

\* The concrete scenario of C4 is reached in a build.
C4_ScenarioReached ==
    /\ op = "get_payload"
    /\ MAX_BITCOIN_BLOCK_SIZE = 0
    /\ MAX_XNET_PAYLOAD_IN_BYTES = 0
    /\ subnet_record = ScenarioRecord
    /\ max_block_payload_size = 1000000

\* The first j sections of the fixed order were validated and accepted
PrefixValid(j) ==
    \A s \in 0 .. (j - 1) : s \in inspected /\ batch_payload[s].valid

\* C5. Early rejection: validate_payload charges the sections in their fixed
\* order; the first time the running total exceeds the resolved budget it
\* returns PayloadTooBig with expected = the resolved (possibly clamped)
\* budget and received = the running total at that point, and no later
\* section is validated.
C5_EarlyRejection ==
    (op = "validate_payload" /\ Resolved) =>
        /\ \A i \in 1 .. Len(calls) : calls[i] = i - 1
        /\ \A j \in 1 .. Len(calls) :
               (/\ PrefixValid(j)
                /\ PrefixSum(j) > get_max_block_payload_size_bytes(subnet_record))
               => /\ j = Len(calls)
                  /\ pc = "done"
                  /\ verdict =
                         PayloadTooBig(
                             get_max_block_payload_size_bytes(subnet_record),
                             PrefixSum(j))

\* A received payload rejected at its second section, under a clamped
\* budget, the later sections never validated.
C5_Witness ==
    /\ op = "validate_payload"
    /\ ~from_build
    /\ pc = "done"
    /\ verdict.kind = "PayloadTooBig"
    /\ Len(calls) = 2
    /\ inspected = {0, 1}
    /\ batch_payload[0].bytes > 0
    /\ verdict.expected > subnet_record.max_block_payload_size
    /\ verdict.received = batch_payload[0].bytes + batch_payload[1].bytes

\* What is known of the payload already rules out success
KnownFailure ==
    \/ subnet_record = NoRecord
    \/ \E s \in inspected : ~batch_payload[s].valid
    \/ \E j \in 1 .. num_sections :
           /\ 0 .. (j - 1) \subseteq inspected
           /\ PrefixSum(j) > max_block_payload_size

\* C6. Validate success condition: for a payload that is no summary,
\* validate_payload returns success exactly when the registry lookup
\* succeeds, every section's validate succeeds and every prefix sum of the
\* sections' bytes, in the fixed order, is at most the resolved budget; a
\* total equal to the budget is accepted.
C6_ValidateSuccessCondition ==
    (op = "validate_payload" /\ ~is_summary /\ pc = "done") =>
        /\ verdict = Ok <=> ~KnownFailure
        /\ verdict = Ok => inspected = SectionIds
        /\ (/\ subnet_record # NoRecord
            /\ inspected = SectionIds
            /\ \A s \in SectionIds : batch_payload[s].valid
            /\ \A j \in 1 .. num_sections :
                   PrefixSum(j) <= max_block_payload_size)
               => verdict = Ok

\* A received payload whose total equals the budget, accepted.
C6_Witness ==
    /\ op = "validate_payload"
    /\ ~is_summary
    /\ ~from_build
    /\ pc = "done"
    /\ verdict = Ok
    /\ max_block_payload_size > 0
    /\ PrefixSum(num_sections) = max_block_payload_size

\* C7. Summary short-circuit: validate_payload returns success for every
\* payload tagged summary, at any height and in any context, also when the
\* registry has no subnet record at context.registry_version.
C7_SummaryShortCircuit ==
    (op = "validate_payload" /\ is_summary) =>
        pc = "done" /\ verdict = Ok

\* A summary payload validated while the registry has no record.
C7_Witness ==
    /\ op = "validate_payload"
    /\ is_summary
    /\ subnet_record = NoRecord
    /\ height = MaxHeight
    /\ verdict = Ok

\* C8. Registry failure is transient: for a payload that is no summary, when
\* the subnet record at context.registry_version cannot be obtained,
\* validate_payload returns the transient error and no section is
\* validated: never PayloadTooBig, never another permanent error.
C8_RegistryFailureTransient ==
    (op = "validate_payload" /\ ~is_summary /\ subnet_record = NoRecord) =>
        /\ pc = "done"
        /\ verdict = TransientError
        /\ calls = <<>>
        /\ inspected = {}

\* A data payload validated while the registry has no record, after an
\* earlier call with a misconfigured record.
C8_Witness ==
    /\ op = "validate_payload"
    /\ ~is_summary
    /\ subnet_record = NoRecord
    /\ pc = "done"
    /\ verdict.kind = "Transient"
    /\ critical_error_subnet_record_data_issue > 0

\* C9. Validate determinism: a validate_payload call with the arguments and
\* the registry state of an earlier call returns the verdict of that call,
\* whatever the clock, the metrics counter and the warning cooldown are by
\* then and whatever calls ran before.
C9_ValidateDeterminism ==
    (op = "validate_payload" /\ pc = "done" /\ prev_call # NoPrevCall) =>
        verdict = prev_call.verdict

\* A repeated call that was rejected like the first one, although the clock,
\* the counter and the cooldown had all changed in between.
C9_Witness ==
    /\ op = "validate_payload"
    /\ pc = "done"
    /\ prev_call # NoPrevCall
    /\ verdict.kind = "PayloadTooBig"
    /\ verdict = prev_call.verdict
    /\ call_now > prev_call.now
    /\ call_counter > prev_call.counter
    /\ call_last_warned # prev_call.last_warned
    /\ last_warned = now

\* The names of the sections in the order they were called
CallOrder == [i \in 1 .. Len(calls) |-> SectionName(calls[i])]

\* C10. Rotation order: get_payload calls the section builders in the order
\* [Ingress, SelfValidating, XNet, CanisterHttp] rotated right by
\* height mod 4: the section of fixed index i is called at position
\* (i + height mod 4) mod 4; at height 7 the order is SelfValidating, XNet,
\* CanisterHttp, Ingress.
C10_RotationOrder ==
    op = "get_payload" =>
        /\ \A i \in 1 .. Len(calls) :
               calls[i] = (i - 1 + num_sections - (height % num_sections))
                              % num_sections
        /\ \A s \in SectionIds :
               (s + (height % num_sections)) % num_sections < Len(calls)
                   => calls[((s + (height % num_sections)) % num_sections) + 1]
                          = s
        /\ (height = 7 /\ pc = "done")
               => CallOrder =
                      <<"SelfValidating", "XNet", "CanisterHttp", "Ingress">>

\* The build at height 7, all four sections called.
C10_Witness ==
    /\ op = "get_payload"
    /\ pc = "done"
    /\ height = 7
    /\ Len(calls) = num_sections
    /\ CallOrder[1] = "SelfValidating"
    /\ CallOrder[num_sections] = "Ingress"

\* The section get_payload calls first at height h
FirstCalled(h) == rotated_section_select(h)[1]

\* C11. Rotation fairness: over any num_sections consecutive heights, each
\* section is the first one get_payload calls at exactly one of them.
C11_RotationFairness ==
    op = "get_payload" =>
        /\ Len(calls) >= 1 => calls[1] = FirstCalled(height)
        /\ \A h0 \in Heights :
               (h0 <= height /\ height <= h0 + num_sections - 1) =>
                   \A s \in SectionIds :
                       Cardinality({h \in h0 .. (h0 + num_sections - 1) :
                                        FirstCalled(h) = s}) = 1

\* A build past the first cycle of heights whose first call went to the
\* last section of the fixed order.
C11_Witness ==
    /\ op = "get_payload"
    /\ pc = "done"
    /\ height = num_sections + 1
    /\ calls[1] = num_sections - 1
    /\ FirstCalled(height - 1) = 0

\* C12. Validate order is fixed: validate_payload calls the sections'
\* validate in the order Ingress, SelfValidating, XNet, CanisterHttp at
\* every height, and charges them against the budget in that order.
C12_ValidateOrderFixed ==
    op = "validate_payload" =>
        /\ calls = [i \in 1 .. Len(calls) |-> i - 1]
        /\ CallOrder = [i \in 1 .. Len(calls) |-> section_builder[i]]
        /\ (pc = "sections" \/ verdict.kind = "PayloadTooBig")
               => accumulated_size = PrefixSum(Len(calls))

\* A validation at a height where Build would start with another section:
\* all four sections validated, Ingress first.
C12_Witness ==
    /\ op = "validate_payload"
    /\ ~from_build
    /\ pc = "done"
    /\ height % num_sections = 3
    /\ verdict = Ok
    /\ CallOrder = section_builder
    /\ batch_payload[0].bytes > 0
    /\ batch_payload[3].bytes > 0

\* The record asks for less than the required minimum
Misconfigured(record) == record.max_block_payload_size < RequiredMin(record)

\* No warning was emitted in the WARN_EVERY_N_SECONDS before the call started
WindowOpen ==
    \/ call_last_warned = Never
    \/ call_now - call_last_warned >= WARN_EVERY_N_SECONDS

\* C13 as stated. Clamp alarm: with record.max_block_payload_size <
\* required_min, the fault counter increments exactly once per cooldown
\* window of 300 s, however many resolver calls fall in the window: a call
\* increments it only when no call did in the last 300 s.
C13_CounterOncePerWindow ==
    (Resolved /\ Misconfigured(subnet_record)) =>
        critical_error_subnet_record_data_issue =
            call_counter + (IF WindowOpen THEN 1 ELSE 0)

\* C13, amended. Clamp alarm: with record.max_block_payload_size <
\* required_min the resolved budget is required_min and the fault counter
\* increments once in every resolver call, inside or outside the cooldown
\* window of the warning; a well-configured record leaves the counter alone.
C13_ClampAlarm ==
    Resolved =>
        /\ max_block_payload_size =
               IF Misconfigured(subnet_record)
               THEN RequiredMin(subnet_record)
               ELSE subnet_record.max_block_payload_size
        /\ critical_error_subnet_record_data_issue =
               call_counter + (IF Misconfigured(subnet_record) THEN 1 ELSE 0)

\* A second misconfigured resolver call inside the cooldown window of the
\* first: the counter went up again, the warning was not repeated.
C13_Witness ==
    /\ Resolved
    /\ Misconfigured(subnet_record)
    /\ ~WindowOpen
    /\ last_warned = call_last_warned
    /\ call_counter = 1
    /\ critical_error_subnet_record_data_issue = 2

\* What validate_payload answers, with byte budget `budget`, on the payload
\* as far as the call looked at it: the first section, in the fixed order,
\* that is refused or brings the running total over the budget decides.
ReferenceVerdict(budget) ==
    LET failing == {j \in 1 .. num_sections :
                        /\ 0 .. (j - 1) \subseteq inspected
                        /\ \/ ~batch_payload[j - 1].valid
                           \/ PrefixSum(j) > budget}
        first == CHOOSE j \in failing : \A k \in failing : j <= k
    IN IF failing = {}
       THEN Ok
       ELSE IF ~batch_payload[first - 1].valid
       THEN SectionError(first - 1)
       ELSE PayloadTooBig(budget, PrefixSum(first))

\* The record with max_block_payload_size set to the required minimum
Repaired(record) ==
    [record EXCEPT !.max_block_payload_size = RequiredMin(record)]

\* The next step of a get_payload call can be taken
BuildCanStep ==
    \/ ENABLED (\E b \in BuildAnswers(build_byte_limit(max_block_payload_size,
                                                        accumulated_size)) :
                    get_payload_section(b))
    \/ ENABLED get_payload_return

\* C15. Configuration fault is never an error: with
\* record.max_block_payload_size < required_min, get_payload goes on to
\* return a payload of all sections, and validate_payload returns the
\* verdict it returns for the record whose max_block_payload_size is
\* required_min; the misconfiguration itself yields no error value.
C15_ConfigFaultNoError ==
    (Resolved /\ Misconfigured(subnet_record)) =>
        /\ (op = "get_payload" /\ pc = "sections") => BuildCanStep
        /\ (op = "get_payload" /\ pc = "done") => Len(calls) = num_sections
        /\ op = "validate_payload" => verdict.kind # "TransientError"
        /\ (op = "validate_payload" /\ pc = "done") =>
               verdict = ReferenceVerdict(
                             Repaired(subnet_record).max_block_payload_size)

\* A misconfigured record and a payload over the configured size that
\* validate_payload accepts, as it does under the repaired record.
C15_Witness ==
    /\ op = "validate_payload"
    /\ pc = "done"
    /\ Resolved
    /\ Misconfigured(subnet_record)
    /\ PrefixSum(num_sections) > subnet_record.max_block_payload_size
    /\ verdict = Ok

\* One step of a get_payload call: one more section called, or the return
BuildStep ==
    (op = "get_payload" /\ pc = "sections") =>
        \/ /\ pc' = "sections"
           /\ Len(calls') = Len(calls) + 1
        \/ /\ pc' = "done"
           /\ calls' = calls
           /\ batch_payload' = batch_payload

\* C16. Build never fails: at every height and for every record, every
\* step of get_payload calls one more section or returns, a step is always
\* possible, no more than num_sections calls are made, and the call ends
\* returning a BatchPayload after exactly num_sections section calls.
C16_BuildNeverFails ==
    /\ [](op = "get_payload" =>
            /\ Len(calls) <= num_sections
            /\ pc = "sections" => BuildCanStep
            /\ pc = "done" =>
                   /\ Len(calls) = num_sections
                   /\ verdict = NoVerdict
                   /\ \A s \in SectionIds : batch_payload[s].valid)
    /\ [][BuildStep]_vars

\* A build that returned at the last height with a misconfigured record.
C16_Witness ==
    /\ op = "get_payload"
    /\ pc = "done"
    /\ height = MaxHeight
    /\ Misconfigured(subnet_record)
    /\ Len(calls) = num_sections

\* C18. Section independence in Build: a get_payload call invokes the
\* build_payload of every section exactly once, whatever the sections
\* called before reported; a full budget or an empty contribution does not
\* end the loop.
C18_SectionIndependence ==
    op = "get_payload" =>
        /\ \A s \in SectionIds :
               Cardinality({i \in 1 .. Len(calls) : calls[i] = s}) <= 1
        /\ (pc = "sections" /\ Len(calls) < num_sections) =>
               ENABLED (\E b \in BuildAnswers(
                                     build_byte_limit(max_block_payload_size,
                                                      accumulated_size)) :
                            get_payload_section(b))
        /\ pc = "done" =>
               \A s \in SectionIds :
                   Cardinality({i \in 1 .. Len(calls) : calls[i] = s}) = 1

\* A build whose first section took the whole budget and whose other
\* sections were still called, each contributing nothing.
C18_Witness ==
    /\ op = "get_payload"
    /\ pc = "done"
    /\ max_block_payload_size > 0
    /\ batch_payload[calls[1]].bytes = max_block_payload_size
    /\ \A i \in 2 .. num_sections :
           /\ limits[i] = 0
           /\ batch_payload[calls[i]].bytes = 0
    /\ {calls[i] : i \in 1 .. Len(calls)} = SectionIds

\* The bytes reported by the sections called before the i-th call
ReportedBefore(i) == SumBytes(batch_payload, {calls[k] : k \in 1 .. (i - 1)})

\* C17. Saturating remaining budget: the byte_limit get_payload passes to a
\* section is max(0, resolved budget - bytes reported by the sections called
\* before); it is never negative, and once the reported bytes reach or
\* exceed the budget, over-reporting included, it is 0 for every later
\* section.
C17_SaturatingBudget ==
    op = "get_payload" =>
        /\ Len(limits) = Len(calls)
        /\ \A i \in 1 .. Len(limits) :
               /\ limits[i] >= 0
               /\ limits[i] =
                      IF RequiredMin(subnet_record)
                             > subnet_record.max_block_payload_size
                      THEN Max(0, RequiredMin(subnet_record)
                                      - ReportedBefore(i))
                      ELSE Max(0, subnet_record.max_block_payload_size
                                      - ReportedBefore(i))
               /\ ReportedBefore(i) >= max_block_payload_size
                      => limits[i] = 0

\* A build in which a section reported more than its byte_limit, bringing
\* the total over the budget, and the sections after it were given 0.
C17_Witness ==
    /\ op = "get_payload"
    /\ pc = "done"
    /\ batch_payload[calls[2]].bytes > limits[2]
    /\ ReportedBefore(3) > max_block_payload_size
    /\ limits[3] = 0
    /\ limits[4] = 0

\* C19. Read-only inputs: get_payload and validate_payload leave
\* past_payloads and context as the caller holds them, and every section
\* call of one invocation is handed the height, the context and the whole
\* past_payloads of that invocation.
C19_ReadOnlyInputs ==
    /\ [](/\ Len(passed) = Len(calls)
          /\ \A i \in 1 .. Len(passed) :
                 /\ passed[i].height = height
                 /\ passed[i].context = context
                 /\ passed[i].past_payloads = past_payloads)
    /\ [][/\ context' = context
          /\ past_payloads' = past_payloads
          /\ pc = "sections" => height' = height]_vars

\* A validation of four sections at a height other than 0, by a caller
\* holding the longest list of past payloads and a later context.
C19_Witness ==
    /\ op = "validate_payload"
    /\ pc = "done"
    /\ height # 0
    /\ Len(passed) = num_sections
    /\ Len(past_payloads) = MaxPast
    /\ context.registry_version = MaxRegistryVersion

\* One step in which the warning is emitted
WarningStep ==
    last_warned' # last_warned =>
        /\ last_warned' = now
        /\ last_warned = Never \/ now - last_warned >= WARN_EVERY_N_SECONDS
        /\ critical_error_subnet_record_data_issue' =
               critical_error_subnet_record_data_issue + 1
        /\ pc = "idle" => Misconfigured(subnet_record')

\* A resolver call can be made by any caller, whatever the cooldown state
ResolverNotBlocked ==
    critical_error_subnet_record_data_issue < MaxCounter =>
        \A r \in SubnetRecord :
            /\ pc = "idle" =>
                   /\ ENABLED get_payload_begin(MaxHeight, r)
                   /\ ENABLED validate_payload_received(MaxHeight, FALSE, r)
            /\ pc = "sections" => ENABLED other_thread_call(r)

\* C14. Rate-limited warning: over any interleaving of the resolver calls of
\* concurrent get_payload and validate_payload calls, the warning is emitted
\* only by a call with a misconfigured record and only when no warning was
\* emitted in the 300 seconds before, so at most once per window; no caller
\* waits on the cooldown state.
C14_RateLimitedWarning ==
    /\ [][WarningStep]_vars
    /\ []ResolverNotBlocked

\* A misconfigured call half a window after the call that emitted the
\* warning: it counted the fault and emitted nothing.
C14_Witness ==
    /\ pc = "sections"
    /\ Misconfigured(subnet_record)
    /\ call_now = HalfWindow
    /\ call_last_warned = 0
    /\ last_warned = 0
    /\ critical_error_subnet_record_data_issue = call_counter + 1

\* The budget of a record as the claims state it
Budget(record) ==
    IF Misconfigured(record)
    THEN RequiredMin(record)
    ELSE record.max_block_payload_size

\* The verdict of a validate_payload call running alone
RunAloneVerdict ==
    IF is_summary
    THEN Ok
    ELSE IF subnet_record = NoRecord
    THEN TransientError
    ELSE ReferenceVerdict(Budget(subnet_record))

\* Steps of other threads and of the clock leave the locals of the call
OthersStep ==
    (pc' = pc /\ calls' = calls) =>
        UNCHANGED <<op, height, is_summary, subnet_record,
                    max_block_payload_size, accumulated_size, batch_payload,
                    inspected, section_select, limits, verdict, passed>>

\* C20. Thread-safety: whatever other threads' calls and the clock do while
\* a call runs, get_payload calls the sections in the rotated order with the
\* byte limits its arguments and the sections' answers determine, and
\* validate_payload returns the verdict its arguments, the registry record
\* and the sections' answers determine; other calls change the fault counter
\* and the warning cooldown only.
C20_ThreadSafety ==
    /\ [](/\ op = "get_payload" =>
                /\ \A i \in 1 .. Len(calls) :
                       /\ calls[i] = (i - 1 + num_sections
                                          - (height % num_sections))
                                         % num_sections
                       /\ limits[i] = Max(0, Budget(subnet_record)
                                                 - ReportedBefore(i))
                /\ pc = "done" => Len(calls) = num_sections
          /\ (op = "validate_payload" /\ pc = "sections") =>
                /\ accumulated_size = PrefixSum(Len(calls))
                /\ ReferenceVerdict(Budget(subnet_record)) = Ok
          /\ (op = "validate_payload" /\ pc = "done") =>
                verdict = RunAloneVerdict)
    /\ [][OthersStep]_vars

\* A validation that ended in PayloadTooBig while another thread's
\* misconfigured call and the clock moved the shared state under it.
C20_Witness ==
    /\ op = "validate_payload"
    /\ pc = "done"
    /\ verdict.kind = "PayloadTooBig"
    /\ Len(calls) >= 2
    /\ Misconfigured(subnet_record)
    /\ critical_error_subnet_record_data_issue = call_counter + 2
    /\ now > call_now

\* The sections before the j-th call were accepted within the budget
PrefixWithinBudget(j) ==
    /\ PrefixValid(j - 1)
    /\ \A k \in 1 .. (j - 1) : PrefixSum(k) <= Budget(subnet_record)

\* C23. Section error propagation in Validate: when the validate of a
\* section returns its error and no earlier section of the fixed order
\* brought the running total over the budget, validate_payload returns that
\* section's error at once, whatever the sizes of the slices, and validates
\* no later section.
C23_SectionErrorPropagation ==
    (op = "validate_payload" /\ Resolved) =>
        /\ \A j \in 1 .. num_sections :
               (/\ 0 .. (j - 1) \subseteq inspected
                /\ PrefixWithinBudget(j)
                /\ ~batch_payload[j - 1].valid)
               => /\ pc = "done"
                  /\ verdict = SectionError(j - 1)
                  /\ Len(calls) = j
                  /\ inspected = 0 .. (j - 1)
        /\ verdict.kind = "SectionError" =>
               /\ ~batch_payload[verdict.section].valid
               /\ verdict.section = Len(calls) - 1
               /\ PrefixWithinBudget(Len(calls))

\* The validate of the third section fails after the first two filled the
\* budget to the last byte: its error is returned, CanisterHttp is not
\* looked at.
C23_Witness ==
    /\ op = "validate_payload"
    /\ pc = "done"
    /\ verdict = SectionError(2)
    /\ max_block_payload_size > 0
    /\ PrefixSum(2) = max_block_payload_size
    /\ 3 \notin inspected

\* C24. No permanent starvation: the section get_payload calls first is
\* given the whole resolved budget as byte_limit, in any num_sections
\* consecutive heights every section is that first section once, and within
\* one call the byte limits of successive sections never increase.
C24_NoStarvation ==
    op = "get_payload" =>
        /\ Len(limits) >= 1 =>
               /\ limits[1] = Budget(subnet_record)
               /\ calls[1] = (num_sections - (height % num_sections))
                                 % num_sections
        /\ \A i \in 1 .. Len(limits) : \A j \in i .. Len(limits) :
               limits[j] <= limits[i]
        /\ \A s \in SectionIds :
               \E h \in height .. (height + num_sections - 1) :
                   (num_sections - (h % num_sections)) % num_sections = s

\* A build under a tight budget: the first section, not Ingress, was given
\* all of it and used it, the others were given nothing.
C24_Witness ==
    /\ op = "get_payload"
    /\ pc = "done"
    /\ calls[1] # 0
    /\ limits[1] = max_block_payload_size
    /\ max_block_payload_size > 0
    /\ batch_payload[calls[1]].bytes = limits[1]
    /\ limits[2] = 0
    /\ limits[num_sections] = 0

\* C26. Rotation keeps the cyclic order: at every height the section
\* get_payload calls right after section i is section (i + 1) mod
\* num_sections of the fixed order; the rotation changes only which section
\* is first.
C26_CyclicOrder ==
    op = "get_payload" =>
        /\ \A i \in 1 .. (Len(calls) - 1) :
               calls[i + 1] = (calls[i] + 1) % num_sections
        /\ \A i \in 1 .. Len(section_select) - 1 :
               section_select[i + 1] = (section_select[i] + 1) % num_sections

\* A build at a height of rotation distance 2: XNet first, then
\* CanisterHttp, then round to Ingress and SelfValidating.
C26_Witness ==
    /\ op = "get_payload"
    /\ pc = "done"
    /\ height % num_sections = 2
    /\ height > num_sections
    /\ CallOrder = <<"XNet", "CanisterHttp", "Ingress", "SelfValidating">>

\* C27. No work on short-circuit paths: validate_payload of a summary
\* payload answers without the registry record, calls no section's validate
\* and leaves the fault counter alone; when the registry lookup of a
\* non-summary payload fails, no section's validate is called and the fault
\* counter and the warning cooldown stay as they were.
C27_NoWorkOnShortCircuit ==
    (op = "validate_payload" /\ (is_summary \/ subnet_record = NoRecord)) =>
        /\ pc = "done"
        /\ verdict = (IF is_summary THEN Ok ELSE TransientError)
        /\ calls = <<>>
        /\ passed = <<>>
        /\ inspected = {}
        /\ critical_error_subnet_record_data_issue = call_counter
        /\ last_warned = call_last_warned

\* A non-summary payload whose registry lookup failed, validated after an
\* earlier call had counted a fault and emitted the warning.
C27_Witness ==
    /\ op = "validate_payload"
    /\ ~is_summary
    /\ subnet_record = NoRecord
    /\ verdict = TransientError
    /\ call_counter = 1
    /\ critical_error_subnet_record_data_issue = 1
    /\ last_warned = 0

\* C25. Build budget source: get_payload resolves its budget from
\* subnet_records.context_version alone; whatever
\* subnet_records.membership_version holds, the budget, the fault count and
\* the byte limits of the sections are those of the context_version record.
C25_BudgetSource ==
    op = "get_payload" =>
        /\ max_block_payload_size = Budget(subnet_record)
        /\ critical_error_subnet_record_data_issue =
               call_counter + (IF Misconfigured(subnet_record) THEN 1 ELSE 0)
        /\ \A i \in 1 .. Len(limits) :
               limits[i] = Max(0, Budget(subnet_record) - ReportedBefore(i))

\* A build whose membership record would resolve to another budget and
\* would count a fault the context record does not.
C25_Witness ==
    /\ op = "get_payload"
    /\ pc = "done"
    /\ Budget(membership_version) # Budget(subnet_record)
    /\ Misconfigured(membership_version)
    /\ ~Misconfigured(subnet_record)
    /\ limits[1] = Budget(subnet_record)

\* C22. Build includes everything that fits: with empty past_payloads and
\* section builders that include what their sources hold whenever it fits,
\* when the content of all sources together fits within the resolved
\* budget, every slice of the payload get_payload returns holds what its
\* source offered, no less and no more.
C22_BuildIncludesAll ==
    (/\ op = "get_payload"
     /\ past_payloads = <<>>
     /\ SumBytes([s \in SectionIds |-> Slice(offered[s])], SectionIds)
            <= Budget(subnet_record))
    => /\ \A i \in 1 .. Len(calls) :
              batch_payload[calls[i]] = Slice(offered[calls[i]])
       /\ pc = "done" =>
              \A s \in SectionIds : batch_payload[s] = Slice(offered[s])

\* A build at height 1 whose ingress, cross-subnet and external-chain
\* sources all held content, all of it in the returned payload.
C22_Witness ==
    /\ op = "get_payload"
    /\ pc = "done"
    /\ height = 1
    /\ \A s \in 0 .. 2 : offered[s] > 0
    /\ \A s \in SectionIds : batch_payload[s].bytes = offered[s]

\* C21. Metrics do not steer: whatever the fault counter, the duration
\* histograms and the past-payload-length histogram hold, get_payload
\* resolves the budget of its record, calls the sections in the rotated
\* order with the byte limits that budget and the sections' reports give,
\* and validate_payload returns the verdict its payload and record give.
C21_MetricsDoNotSteer ==
    /\ Resolved => max_block_payload_size = Budget(subnet_record)
    /\ op = "get_payload" =>
           /\ \A i \in 1 .. Len(calls) :
                  /\ calls[i] = FirstCalled(height + num_sections + 1 - i)
                  /\ limits[i] = Max(0, Budget(subnet_record)
                                            - ReportedBefore(i))
                  /\ batch_payload[calls[i]].bytes <= limits[i]
           /\ pc = "done" => Len(calls) = num_sections
    /\ (op = "validate_payload" /\ pc = "done") => verdict = RunAloneVerdict

\* A validation on a builder that had counted a fault and observed earlier
\* calls: the clamped budget is still applied and the payload refused.
C21_Witness ==
    /\ op = "validate_payload"
    /\ pc = "done"
    /\ call_counter > 0
    /\ validate_payload_duration > 0
    /\ past_payloads_length > 0
    /\ Misconfigured(subnet_record)
    /\ max_block_payload_size > subnet_record.max_block_payload_size
    /\ verdict.kind = "PayloadTooBig"

\* The permits the accept loop holds between acquire and accept
HeldByLoop == IF request_permit THEN 1 ELSE 0

\* C28. Connection cap: the accepted connections whose task has not
\* finished are never more than MAX_OUTSTANDING_CONNECTIONS; every permit
\* of the semaphore is free, held by the accept loop or held by exactly
\* one unfinished task, so that each is released when its task ends or the
\* accept fails; and a connection is accepted only by a loop holding a
\* permit, while fewer than the maximum are outstanding.
C28_ConnectionCap ==
    /\ [](/\ Outstanding <= MAX_OUTSTANDING_CONNECTIONS
          /\ outstanding_connections >= 0
          /\ outstanding_connections + HeldByLoop + Outstanding
                 = MAX_OUTSTANDING_CONNECTIONS)
    /\ [][connections_total' # connections_total =>
              /\ request_permit
              /\ Outstanding < MAX_OUTSTANDING_CONNECTIONS
              /\ Outstanding' = Outstanding + 1]_vars

\* The cap reached by connections accepted after earlier tasks had ended:
\* no permit is free, the loop waits in acquire, plain and TLS connections
\* are being served.
C28_Witness ==
    /\ Outstanding = MAX_OUTSTANDING_CONNECTIONS
    /\ outstanding_connections = 0
    /\ ~request_permit
    /\ connections_total > MAX_OUTSTANDING_CONNECTIONS
    /\ connection_tasks["https"] > 0
    /\ connection_tasks["http"] > 0

\* The answers `a` of a round carry a certificate that parsed, whose
\* subnet public key is the one of the registry, signed by the root key
Verified(a) ==
    /\ a.fetch.step = "parsed"
    /\ a.fetch.public_key \in Keys
    /\ a.registry_pk \in Keys
    /\ a.fetch.public_key = a.registry_pk
    /\ a.root_pk = "root_key"
    /\ a.fetch.signed_by = "root_key"

\* load_root_delegation returned a delegation only from a verified round
ReturnedVerified ==
    loaded_delegation.kind = "Some" =>
        /\ Verified(last_attempt)
        /\ loaded_delegation.certificate = last_attempt.fetch

\* The last round found no node of the root subnet, or one whose address
\* does not parse
NoNodeToTalkTo ==
    last_attempt.fetch.step \in {"no_node", "bad_ip_address"}

\* C29 as stated. Delegation is verified before use: a delegation is
\* returned only from a round whose response parsed, whose certificate
\* carries the subnet's public key of the registry and validated against
\* the root public key; and no failure makes load_root_delegation give up.
C29_NeverGivesUp ==
    /\ ReturnedVerified
    /\ init_pc # "aborted"

\* C29, amended. A delegation is returned only from a verified round; a
\* round that fails after a node of the root subnet was found and its
\* address parsed backs off and leaves the loop running, with nothing
\* returned; a round that finds no node, or a node whose address does not
\* parse, ends the task without a return, and nothing else does.
C29_VerifiedBeforeUse ==
    /\ [](/\ ReturnedVerified
          /\ (init_pc = "aborted") <=> NoNodeToTalkTo)
    /\ [][(fetching_root_delagation_attempts'
               # fetching_root_delagation_attempts
           /\ ~Verified(last_attempt') /\ ~NoNodeToTalkTo') =>
              /\ init_pc' = "load_root_delegation"
              /\ loaded_delegation' = NoDelegation
              /\ UNCHANGED <<health_status, delegation_from_nns>>]_vars

\* A delegation returned by the second round of the loop, after the first
\* round failed and backed off.
C29_Witness ==
    /\ loaded_delegation.kind = "Some"
    /\ fetching_root_delagation_attempts = 2
    /\ Verified(last_attempt)
    /\ init_pc = "returned"

\* The place of a status in the order of HealthOrder
Rank(status) == CHOOSE i \in 1 .. Len(HealthOrder) : HealthOrder[i] = status

\* C30. Health status progression: the status starts as Starting and
\* every change takes it to the next of Starting,
\* WaitingForCertifiedState, WaitingForRootDelegation, Healthy; it is
\* Healthy only when a certified state was available, load_root_delegation
\* returned, and what it returned is stored as the delegation.
C30_HealthProgression ==
    /\ [](/\ health_status = "Healthy" =>
                 /\ certified_state
                 /\ init_pc = "ready"
                 /\ on_nns_subnet \/ loaded_delegation.kind = "Some"
                 /\ delegation_from_nns = loaded_delegation
          /\ Rank(health_status) >= 3 => certified_state
          /\ delegation_from_nns # NoDelegation =>
                 delegation_from_nns = loaded_delegation)
    /\ [][health_status' # health_status =>
              Rank(health_status') = Rank(health_status) + 1]_vars

\* A healthy replica of a subnet other than the NNS holding the
\* delegation it loaded.
C30_Witness ==
    /\ health_status = "Healthy"
    /\ ~on_nns_subnet
    /\ delegation_from_nns.kind = "Some"
    /\ certified_state

\* C31. Accept loop keeps serving: the loop of start_server never ends;
\* a failed accept leaves it running with the permit of the failed accept
\* free again, so that it can take a permit and, holding one, accept the
\* next connection, however many accepts failed before.
C31_AcceptLoopKeepsServing ==
    /\ [](/\ accept_loop = "running"
          /\ (~request_permit /\ outstanding_connections > 0) =>
                 ENABLED acquire
          /\ (request_permit /\ connections_total < MaxAccepts) =>
                 ENABLED accept_ok)
    /\ [][accept_errors' # accept_errors =>
              /\ accept_loop' = "running"
              /\ ~request_permit'
              /\ outstanding_connections' = outstanding_connections + 1
              /\ UNCHANGED <<connection_tasks, connections_total>>]_vars

\* After MaxAcceptErrors failed accepts and connections accepted and
\* ended, the loop holds a permit again and waits in accept.
C31_Witness ==
    /\ accept_errors = MaxAcceptErrors
    /\ accept_loop = "running"
    /\ request_permit
    /\ connections_total > 0
    /\ connections_total < MaxAccepts
    /\ Outstanding = 0

\* C33. On the NNS subnet load_root_delegation is a no-op: no round of
\* its loop runs, so no node is contacted, nothing is returned or stored
\* as the delegation and the task is not aborted; and once a certified
\* state is available the health status becomes Healthy.
C33_NnsNoOp ==
    /\ [](on_nns_subnet =>
              /\ fetching_root_delagation_attempts = 0
              /\ last_attempt = NoAttempt
              /\ loaded_delegation = NoDelegation
              /\ delegation_from_nns = NoDelegation
              /\ init_pc # "aborted")
    /\ (on_nns_subnet /\ certified_state) ~> (health_status = "Healthy")

\* A healthy replica of the NNS subnet, holding no delegation.
C33_Witness ==
    /\ on_nns_subnet
    /\ health_status = "Healthy"
    /\ init_pc = "ready"
    /\ delegation_from_nns = NoDelegation

\* The tasks at position p are one fewer after the step
Leaves(p) == connection_tasks'[p] = connection_tasks[p] - 1
\* The tasks at position p are one more after the step
Enters(p) == connection_tasks'[p] = connection_tasks[p] + 1

\* C34. Protocol detection and fallback: a task whose peek gave first
\* byte 22 goes on as Https, to the TLS handshake; after any other byte,
\* an error or a timeout it goes on to be served as plain Http; a task
\* whose TLS handshake fails ends there, without its connection ever being
\* served, and one whose handshake succeeds is served as Https.
C34_ProtocolDetection ==
    /\ [][Leaves("peek") =>
              LET r == last_observed'.result
              IN /\ last_observed'.step = "peek"
                 /\ Outstanding' = Outstanding
                 /\ connection_tasks'["https"] = connection_tasks["https"]
                 /\ IF r.kind = "peeked" /\ r.b = 22
                    THEN Enters("tls_handshake")
                    ELSE Enters("http")]_vars
    /\ [][Leaves("tls_handshake") =>
              /\ last_observed'.step = "tls_handshake"
              /\ connection_tasks'["http"] = connection_tasks["http"]
              /\ IF last_observed'.ok
                 THEN Enters("https") /\ Outstanding' = Outstanding
                 ELSE /\ connection_tasks'["https"] = connection_tasks["https"]
                      /\ Outstanding' = Outstanding - 1]_vars
    /\ [][(Enters("https") \/ Enters("http")) =>
              Leaves("peek") \/ Leaves("tls_handshake")]_vars

\* A connection whose peek timed out, being served as plain Http while no
\* other connection is outstanding.
C34_Witness ==
    /\ last_observed.step = "peek"
    /\ last_observed.result.kind = "timeout"
    /\ connection_tasks["http"] = 1
    /\ Outstanding = 1

\* Two letters that differ in case only
SameLetter(c, d) ==
    \/ c = d
    \/ <<c, d>> \in {<<"A", "a">>, <<"P", "p">>, <<"L", "l">>, <<"I", "i">>,
                     <<"C", "c">>, <<"T", "t">>, <<"O", "o">>, <<"N", "n">>,
                     <<"B", "b">>, <<"R", "r">>}
    \/ <<d, c>> \in {<<"A", "a">>, <<"P", "p">>, <<"L", "l">>, <<"I", "i">>,
                     <<"C", "c">>, <<"T", "t">>, <<"O", "o">>, <<"N", "n">>,
                     <<"B", "b">>, <<"R", "r">>}

\* The header value is application/cbor, whatever the case of its letters
EqualIgnoringCase(value) ==
    /\ Len(value) = 16
    /\ \A i \in 1 .. 16 : SameLetter(value[i], CONTENT_TYPE_CBOR[i])

\* The request carries a content-type header naming CBOR
NamesCbor(r) ==
    \E i \in 1 .. Len(r.content_type) : EqualIgnoringCase(r.content_type[i])

\* The paths make_router knows for POST and for GET
KnownPostPaths ==
    {<<"", "api", "v2", "canister", id, action>> :
         id \in CanisterIds, action \in {"call", "query", "read_state"}}
        \cup {<<"", "_", "catch_up_package">>}
KnownGetPaths ==
    {<<"", "api", "v2", "status">>, <<"", "">>, <<"", "_", "">>,
     <<"", "_", "dashboard">>, <<"", "_", "pprof">>,
     <<"", "_", "pprof", "profile">>, <<"", "_", "pprof", "flamegraph">>}

\* The request was answered by the router with the status
Answered(status) == routed.answer = "response" /\ routed.status = status

\* C32. Request routing: a POST without a content-type header that is
\* application/cbor up to the case of its letters is answered 400 on every
\* path; a POST or GET to a path its method does not know (so, to any
\* path outside the known ones) is answered 404 otherwise; OPTIONS is
\* answered 204 on every path; every other method is answered 405; a
\* request handed to an endpoint service is none of these and the service
\* is one of the six, and a POST naming CBOR to a known POST path is
\* handed to one.
C32_RequestRouting ==
    routed # NotRouted =>
        /\ (req.method = "POST" /\ ~NamesCbor(req)) => Answered(400)
        /\ (req.method = "POST" /\ NamesCbor(req)
            /\ req.path \notin KnownPostPaths) => Answered(404)
        /\ (req.method = "GET" /\ req.path \notin KnownGetPaths) =>
               Answered(404)
        /\ req.method = "OPTIONS" => Answered(204)
        /\ req.method \notin {"POST", "GET", "OPTIONS"} => Answered(405)
        /\ routed.answer = "service" =>
               /\ routed.service \in
                      {"call_service", "query_service", "read_state_service",
                       "catch_up_package_service", "status_service",
                       "dashboard_service"}
               /\ \/ /\ req.method = "POST"
                     /\ NamesCbor(req)
                     /\ req.path \in KnownPostPaths
                  \/ /\ req.method = "GET"
                     /\ req.path \in KnownGetPaths
        /\ (req.method = "POST" /\ NamesCbor(req)
            /\ req.path \in KnownPostPaths) => routed.answer = "service"

\* A POST to a call path whose two content-type headers are CBOR with a
\* parameter and JSON, answered 400.
C32_Witness ==
    /\ req.method = "POST"
    /\ Len(req.content_type) = 2
    /\ req.path = <<"", "api", "v2", "canister", "aaaaa-aa", "call">>
    /\ Answered(400)

\* An operation of `operations` was applied
Applied(operations) == time_result.operation \in operations

\* The sum of the nanoseconds of time_t and time_d
SumNanos == time_t.time + time_d.duration

\* C35. Time addition does not go backwards: t + d and t += d give the
\* Time whose nanosecond count is t's count plus d's nanoseconds, which is
\* at least t; the sum is not reduced modulo the range of a Time.
C35_AddNotBackwards ==
    Applied({"add", "add_assign"}) =>
        /\ time_result.value = Time(SumNanos)
        /\ time_result.value.time >= time_t.time

\* The latest Time plus one nanosecond is the unix epoch.
C35_Witness ==
    /\ Applied({"add"})
    /\ time_t = Time(NanosModulus - 1)
    /\ time_d = Dur(1)
    /\ time_result.value = UNIX_EPOCH

\* C36. Time round-trips: the nanoseconds a Time is made from are the
\* nanoseconds it gives; the Duration made from a Time converts back to
\* that Time; and when the nanoseconds of t and d together fit a Time,
\* (t + d) - d is t and (t + d) - t is d.
C36_TimeRoundTrips ==
    /\ Applied({"nanos_round_trip"}) =>
           time_result.value = [nanos |-> time_t.time]
    /\ Applied({"duration_round_trip"}) =>
           time_result.value = [ok |-> time_t]
    /\ (Applied({"add_sub_duration"}) /\ SumNanos < NanosModulus) =>
           time_result.value = time_t
    /\ (Applied({"add_sub_time"}) /\ SumNanos < NanosModulus) =>
           time_result.value = time_d

\* A Time of an odd count of nanoseconds, neither the epoch nor the
\* latest, back from its Duration.
C36_Witness ==
    /\ Applied({"duration_round_trip"})
    /\ time_t.time % 2 = 1
    /\ time_t.time < NanosModulus - 1
    /\ time_result.value = [ok |-> time_t]

\* C37. Time::try_from(Duration) gives the error 'Duration is too large
\* to be converted into a u64 of nanoseconds!' exactly for the durations
\* of more nanoseconds than the largest u64, and the Time of the
\* duration's nanoseconds for the others.
C37_TryFromDuration ==
    Applied({"try_from"}) =>
        IF time_d.duration > NanosModulus - 1
        THEN time_result.value =
                 [err |-> "Duration is too large to be converted into a u64 of nanoseconds!"]
        ELSE time_result.value = [ok |-> [time |-> time_d.duration]]

\* The shortest Duration that is no Time, refused.
C37_Witness ==
    /\ Applied({"try_from"})
    /\ time_d = Dur(NanosModulus)
    /\ "err" \in DOMAIN time_result.value

\* The Network a spelling names, and its lower-case display
NamedNetwork ==
    [v \in NetworkInRequestVariants |->
        IF v \in {"Mainnet", "mainnet"} THEN "Mainnet"
        ELSE IF v \in {"Testnet", "testnet"} THEN "Testnet" ELSE "Regtest"]
LowerCaseName ==
    [v \in NetworkInRequestVariants |->
        IF v \in {"Mainnet", "mainnet"} THEN "mainnet"
        ELSE IF v \in {"Testnet", "testnet"} THEN "testnet" ELSE "regtest"]

\* C38. Network variants are case-insensitive: each spelling of a
\* NetworkInRequest converts to the Network it names, the same for the
\* upper-case and the lower-case spelling, and displays as the lower-case
\* name its Network displays as; each spelling of a UtxosFilterInRequest
\* converts to the UtxosFilter of its kind with the argument unchanged.
C38_CaseInsensitiveVariants ==
    /\ (in_request.type = "NetworkInRequest" /\ converted.operation = "from")
           => /\ converted.value = Network(NamedNetwork[in_request.variant])
              /\ \A w \in NetworkInRequest :
                     LowerCaseName[w.variant]
                         = LowerCaseName[in_request.variant]
                     => network_from(w) = converted.value
    /\ converted.operation = "display" =>
           /\ converted.value.in_request = LowerCaseName[in_request.variant]
           /\ converted.value.network = converted.value.in_request
    /\ (in_request.type = "UtxosFilterInRequest"
        /\ converted.operation = "from") =>
           /\ converted.value.type = "UtxosFilter"
           /\ in_request.variant \in {"MinConfirmations", "min_confirmations"}
                  => /\ converted.value.variant = "MinConfirmations"
                     /\ converted.value.confirmations
                            = in_request.confirmations
           /\ in_request.variant \in {"Page", "page"}
                  => /\ converted.value.variant = "Page"
                     /\ converted.value.page = in_request.page

\* The lower-case regtest of a request converted to Network::Regtest.
C38_Witness ==
    /\ in_request.type = "NetworkInRequest"
    /\ in_request.variant = "regtest"
    /\ converted.operation = "from"
    /\ converted.value.variant = "Regtest"

====
